---- MODULE Spec2Model ----
(***************************************************************************)
(* Shift-Sync: reconciliation of scraped work shifts with a calendar.      *)
(*                                                                         *)
(* Three reconciliation engines of the repository are modelled against a   *)
(* calendar store:                                                         *)
(*   "ek"     CalendarService.syncShifts        (EventKit, iCloud)         *)
(*   "google" GoogleCalendarService.syncShifts  (Google Calendar REST)     *)
(*   "go"     syncShiftsToCalDAV                (Go CLI, CalDAV)           *)
(* Every store call (list, remove, save, DELETE, PUT, POST) is one step of *)
(* a run, so that failures and interleavings of runs fall between calls.   *)
(*                                                                         *)
(* Specifications:                                                         *)
(*   Spec       any engine, runs one after the other, no call fails        *)
(*   SpecFail   any engine, one run in which store calls may fail          *)
(*   SpecRerun  EventKit or Go engine, one run and then a second one       *)
(*   SpecRace   two EventKit runs side by side, then one run alone         *)
(*   SpecDedup  deduplicateShiftEvents on its own                          *)
(*   SpecAbsent, SpecForeign, SpecCancel, SpecMixed  runs over calendars   *)
(*              that others change, hold foreign events, or are cancelled  *)
(*   SpecPerform, SpecCache, SpecNotify  performSync: fetch, notify, both  *)
(*              calendar syncs, cache and history; once, or called again   *)
(*   SpecRefresh   handleAppRefresh with the expiration handler            *)
(*   SpecHistory, SpecLogRace  the sync history, calls in turn or at once  *)
(*   SpecIdentity, SpecMarker, SpecParse, SpecMonths  makeUID, the marker  *)
(*              in the notes, parseShifts and buildMonthRange on their own *)
(*                                                                         *)
(* Time is an integer number of minutes.  Optional values (String?, Date?) *)
(* are sequences of length 0 or 1.  A nil title or location is folded into *)
(* the empty string.                                                       *)
(***************************************************************************)
EXTENDS Integers, Sequences, FiniteSets, TLC

VARIABLES
    engine,     \* the reconciliation engine this installation runs
    store,      \* target -> set of calendar events held by that calendar
    nextId,     \* next fresh event identifier handed out by a store
    now,        \* wall clock, Date() / time.Now()
    run,        \* run id -> state of that reconciliation run
    started,    \* number of runs started so far
    failures,   \* number of store calls that have failed so far
    prev,       \* outcome and shift list of the run that finished before, and
                \* the event list the last stand-alone dedup pass was given
    defaults,   \* UserDefaults.standard: savedShifts, lastSyncDate, syncHistory
    notified,   \* the change notifications handed to NotificationManager
    task,       \* the BGAppRefreshTask being handled and the scheduler's queue
    logging,    \* invocation -> its position in SyncHistoryManager.addEntry
    call        \* the calls made of a function on its own: arguments and result

\* the state of a reconciliation and the state of the app around it
syncVars == <<engine, store, nextId, now, run, started, failures, prev>>

appVars == <<defaults, notified, task, logging, call>>

vars == <<engine, store, nextId, now, run, started, failures, prev,
          defaults, notified, task, logging, call>>

----------------------------------------------------------------------------
(* Bounds of the model.                                                    *)

MaxInit == 2        \* events in a calendar before the first run
MaxShifts == 2      \* length of a scraped shift list
MaxNow == 2         \* last clock value
MaxRuns == 2        \* reconciliation runs in one behaviour
MaxFail == 1        \* store calls that fail in one behaviour
MaxCalls == 2      \* calls of a function on its own that are compared
MaxIdLen == 2       \* characters of an identity written into the notes
MaxMemoLen == 2     \* characters of a memo or of foreign notes
MaxRows == 2        \* rows of a scraped month page
MaxLogged == 22     \* syncs recorded in the history in one behaviour
MaxYears == 3       \* calendar years a month argument can name
MaxDup == 3         \* length of an event list handed to the dedup pass

----------------------------------------------------------------------------
(* Data.                                                                   *)

WinStart == 0
WinEnd == 5

DistantPast == 0 - 1

TitleDefault == "baito"

Targets == {"icloud", "google"}

RunIds == {1, 2}

\* "HHmm": the end of a shift enters the readable prefix as a time of day
MinutesPerDay == 1440

\* Shift.makeUID / makeShiftUID: readable prefix of the start and end plus a
\* digest of "start-end-location" (the digest is kept as the hashed key)
makeUID(start, end, location) ==
    [prefix |-> <<start, end % MinutesPerDay>>, hash |-> <<start, end, location>>]

\* a time zone: minutes ahead of UTC, and the instant, if any, at which its
\* clocks are set back an hour
Zone(offset, fold) == [offset |-> offset, fold |-> fold]

TimeZones == {Zone(0, <<>>), Zone(60, <<>>), Zone(60, <<60>>)}

\* DateFormatter.string(from:) / Time.Format: the wall clock of an instant in
\* the time zone of the process
LocalTime(zone, t) ==
    t + zone.offset - (IF zone.fold # <<>> /\ t >= zone.fold[1] THEN 60 ELSE 0)

\* Shift.makeUID / makeShiftUID as a process in a time zone computes it
makeUIDIn(zone, start, end, location) ==
    makeUID(LocalTime(zone, start), LocalTime(zone, end), location)

\* Shift.init(title:start:end:location:memo:)
Shift(title, start, end, location, memo) ==
    [uid |-> makeUID(start, end, location), title |-> title, start |-> start,
     end |-> end, location |-> location, memo |-> memo]

\* the rows the shift site can show inside the window, as parseShifts builds them
Catalogue ==
    {Shift(TitleDefault, 0, 1, "A", ""), Shift(TitleDefault, 2, 3, "A", "")}

UIDs == {s.uid : s \in Catalogue}

SeqsUpTo(S, n) == UNION {[1..k -> S] : k \in 0..n}

ShiftLists == SeqsUpTo(Catalogue, MaxShifts)

Range(f) == {f[x] : x \in DOMAIN f}

\* all the orders in which a store can return a set of events
RECURSIVE Orders(_)
Orders(S) ==
    IF S = {} THEN {<<>>}
    ELSE UNION {{<<x>> \o f : f \in Orders(S \ {x})} : x \in S}

----------------------------------------------------------------------------
(* Calendar events.                                                        *)
(*   id     the store's own handle of the event (EKEvent object, Google    *)
(*          event id)                                                      *)
(*   res    CalDAV resource name without ".ics": <<uid>> for shift-*.ics,  *)
(*          <<>> for any other name                                        *)
(*   notes  identity marker of the notes/description: <<uid>> when the     *)
(*          text holds "shift-uid:<uid>", <<>> when it holds no marker     *)

Event(id, res, notes, title, start, end, location, mod) ==
    [id |-> id, res |-> res, notes |-> notes, title |-> title, start |-> start,
     end |-> end, location |-> location, mod |-> mod]

\* CalendarService.extractShiftUID / GoogleCalendarService.extractShiftUID
extractShiftUID(event) == event.notes

\* predicateForEvents(withStart:end:) / timeMin, timeMax
InWindow(event) == event.start < WinEnd /\ event.end > WinStart

\* CalendarService.getExistingShiftEvents, as a set
ExistingShiftEvents(S) == {e \in S : InWindow(e) /\ e.notes # <<>>}

\* CalendarService.createEvent
createEvent(shift, id, t) ==
    Event(id, <<>>, <<shift.uid>>, shift.title, shift.start, shift.end,
          shift.location, <<t>>)

\* CalendarService.updateEvent followed by save
updateEvent(event, shift, t) ==
    [event EXCEPT !.title = shift.title, !.start = shift.start,
                  !.end = shift.end, !.location = shift.location, !.mod = <<t>>]

\* CalendarService.needsUpdate
needsUpdate(event, shift) ==
    \/ event.title # shift.title
    \/ event.start # shift.start
    \/ event.end # shift.end
    \/ event.location # shift.location

\* CalendarService.eventQualityScore
eventQualityScore(event) ==
    (IF event.title # "" THEN 1 ELSE 0)
    + (IF event.location # "" THEN 1 ELSE 0)
    + (IF event.start < event.end THEN 1 ELSE 0)

lastModified(event) == IF event.mod = <<>> THEN DistantPast ELSE event.mod[1]

\* preferredEvent with the lastModified comparison reversed: the copy that
\* was saved longer ago is kept
preferredEvent_KeepsOlder(lhs, rhs) ==
    IF lastModified(lhs) # lastModified(rhs)
    THEN (IF lastModified(lhs) < lastModified(rhs) THEN lhs ELSE rhs)
    ELSE IF eventQualityScore(lhs) # eventQualityScore(rhs)
    THEN (IF eventQualityScore(lhs) >= eventQualityScore(rhs) THEN lhs ELSE rhs)
    ELSE (IF lhs.start <= rhs.start THEN lhs ELSE rhs)

\* CalendarService.preferredEvent
preferredEvent(lhs, rhs) ==
    IF lastModified(lhs) # lastModified(rhs)
    THEN (IF lastModified(lhs) > lastModified(rhs) THEN lhs ELSE rhs)
    ELSE IF eventQualityScore(lhs) # eventQualityScore(rhs)
    THEN (IF eventQualityScore(lhs) >= eventQualityScore(rhs) THEN lhs ELSE rhs)
    ELSE (IF lhs.start <= rhs.start THEN lhs ELSE rhs)

\* DedupStep that always discards the event just read, also when it is the
\* preferred one
DedupStep_DropsNewcomer(acc, event) ==
    LET uid == extractShiftUID(event) IN
    IF uid = <<>> THEN acc
    ELSE IF \E x \in acc.selected : x.notes = uid
    THEN LET existing == CHOOSE x \in acc.selected : x.notes = uid
             preferred == preferredEvent(existing, event)
         IN [selected |-> (acc.selected \ {existing}) \cup {preferred},
             duplicatesToDelete |-> Append(acc.duplicatesToDelete, event)]
    ELSE [selected |-> acc.selected \cup {event},
          duplicatesToDelete |-> acc.duplicatesToDelete]

\* one iteration of the loop of CalendarService.deduplicateShiftEvents
DedupStep(acc, event) ==
    LET uid == extractShiftUID(event) IN
    IF uid = <<>> THEN acc
    ELSE IF \E x \in acc.selected : x.notes = uid
    THEN LET existing == CHOOSE x \in acc.selected : x.notes = uid
             preferred == preferredEvent(existing, event)
             obsolete == IF preferred.id = existing.id THEN event ELSE existing
         IN [selected |-> (acc.selected \ {existing}) \cup {preferred},
             duplicatesToDelete |-> Append(acc.duplicatesToDelete, obsolete)]
    ELSE [selected |-> acc.selected \cup {event},
          duplicatesToDelete |-> acc.duplicatesToDelete]

RECURSIVE DedupLoop(_, _, _)
DedupLoop(events, k, acc) ==
    IF k > Len(events) THEN acc
    ELSE DedupLoop(events, k + 1, DedupStep(acc, events[k]))

\* DedupPlan that selects the survivors and removes nothing
DedupPlan_RemovesNothing(events) ==
    [selected |-> DedupLoop(events, 1, [selected |-> {}, duplicatesToDelete |-> <<>>]).selected,
     duplicatesToDelete |-> <<>>]

\* the planning half of deduplicateShiftEvents: survivors and events to remove
DedupPlan(events) ==
    DedupLoop(events, 1, [selected |-> {}, duplicatesToDelete |-> <<>>])

\* sorted { $0.startDate < $1.startDate }; equal starts are ordered by handle
ByStart(S) ==
    SortSeq(CHOOSE f \in Orders(S) : TRUE,
            LAMBDA a, b : a.start < b.start \/ (a.start = b.start /\ a.id < b.id))

----------------------------------------------------------------------------
(* State of one reconciliation run.                                        *)
(*   shifts     the scraped shift list handed to the run                   *)
(*   desired    desiredShifts of the Go engine (shifts without repeats)    *)
(*   existing   existingEvents, the snapshot the plan is computed from     *)
(*   dups       duplicatesToDelete still to be removed                     *)
(*   toDelete   events of the delete plan still to be removed              *)
(*   i          index of the next shift of the create/update loop          *)
(*   planNow    the clock value the delete plan was computed with          *)
(*   result     the SyncResult under construction                          *)
(*   log        every store write the run has issued, in order, with its   *)
(*              outcome (history of the run, not program state)            *)

SyncResult ==
    [added |-> 0, updated |-> 0, deleted |-> 0,
     addedShifts |-> <<>>, updatedShifts |-> <<>>, deletedShifts |-> <<>>]

IdleRun ==
    [pc |-> "idle", shifts |-> <<>>, desired |-> <<>>, existing |-> <<>>,
     existingUIDs |-> {}, dups |-> <<>>, toDelete |-> <<>>, i |-> 1,
     planNow |-> 0, listFailed |-> FALSE, result |-> SyncResult, log |-> <<>>]

NoPrev == [pc |-> "idle", shifts |-> <<>>, events |-> <<>>]

Finished(r) == run[r].pc \in {"idle", "done", "aborted"}

\* one store write: what was asked, of which event, and whether it was applied
Call(op, uid, id, end, ok) ==
    [op |-> op, uid |-> uid, id |-> id, end |-> end, ok |-> ok]

\* the calendar each engine writes to
TargetOf(e) == IF e = "google" THEN "google" ELSE "icloud"

target == TargetOf(engine)

\* does the calendar still hold the event this handle refers to
Held(event) == \E x \in store[target] : x.id = event.id

Without(S, event) == {x \in S : x.id # event.id}

\* what a calendar can hold before the first run: events of this tool (marked
\* in the notes for the Swift engines, named shift-*.ics for the Go engine)
\* and foreign events, each in any slot
Marks == <<<<>>>> \o [k \in 1..Cardinality(UIDs) |->
                        <<CHOOSE u \in UIDs :
                            Cardinality({v \in UIDs : v.prefix[1] < u.prefix[1]}) = k - 1>>]

SlotSeq == <<<<0, 1>>, <<2, 3>>, <<6, 7>>>>

\* a foreign event, an event of each identity in either slot of the window,
\* and an event of this tool beyond the window
Pool ==
    {<<1, 2>>, <<2, 3>>} \cup {<<m, s>> : m \in 2..Len(Marks), s \in 1..2}

PoolEvent(e, id, p) ==
    Event(id,
          IF e = "go" THEN Marks[p[1]] ELSE <<>>,
          IF e = "go" THEN <<>> ELSE Marks[p[1]],
          TitleDefault, SlotSeq[p[2]][1], SlotSeq[p[2]][2], "A", <<0>>)

\* a CalDAV collection holds one resource per name
UniqueNames(S) ==
    \A x, y \in S : x.res # <<>> /\ x.res = y.res => x.id = y.id

InitialStores(e) ==
    {S \in UNION {{{PoolEvent(e, k, f[k]) : k \in 1..n} :
                      f \in {g \in [1..n -> Pool] :
                               \A a, b \in 1..n :
                                  a < b => \/ g[a][1] < g[b][1]
                                           \/ g[a][1] = g[b][1] /\ g[a][2] <= g[b][2]}} :
                  n \in 0..MaxInit} : UniqueNames(S)}

\* the app as installed: nothing stored, nothing announced, no task
NoDefaults == [savedShifts |-> <<>>, lastSyncDate |-> <<>>, syncHistory |-> <<>>]

NoTask == [pc |-> "none", submitted |-> 0, scheduled |-> 0, completed |-> <<>>]

IdleLogging == [pc |-> "idle", entries |-> <<>>, entry |-> <<>>]

FreshApp ==
    /\ defaults = NoDefaults
    /\ notified = <<>>
    /\ task = NoTask
    /\ logging = [r \in RunIds |-> IdleLogging]
    /\ call = <<>>

InitWith(engines, nfail, nstarted) ==
    /\ engine \in engines
    /\ \E S \in InitialStores(engine) :
          store = [t \in Targets |-> IF t = TargetOf(engine) THEN S ELSE {}]
    /\ nextId = MaxInit + 1
    /\ now = 1
    /\ run = [r \in RunIds |-> IdleRun]
    /\ started = nstarted
    /\ failures = nfail
    /\ prev = NoPrev
    /\ FreshApp

\* the clock advances between runs; a run reads it once, when it plans
Tick ==
    /\ now < MaxNow
    /\ \A r \in RunIds : Finished(r)
    /\ now' = now + 1
    /\ UNCHANGED <<appVars, engine, store, nextId, run, started, failures, prev>>

\* a run is started with a freshly scraped shift list
StartRun(r, shifts) ==
    /\ Finished(r)
    /\ started < MaxRuns
    /\ started' = started + 1
    /\ prev' = [pc |-> run[r].pc, shifts |-> run[r].shifts, events |-> <<>>]
    /\ run' = [run EXCEPT ![r] = [IdleRun EXCEPT !.pc = "list", !.shifts = shifts]]
    /\ UNCHANGED <<appVars, engine, store, nextId, now, failures>>

\* a store call fails: the engine gets an error back, the calendar is unchanged
Failing ==
    /\ failures < MaxFail
    /\ failures' = failures + 1

----------------------------------------------------------------------------
(* CalendarService.syncShifts(_:to:searchStart:searchEnd:)                 *)

\* getExistingShiftEvents and the planning half of deduplicateShiftEvents
EKList(r) ==
    /\ engine = "ek"
    /\ run[r].pc = "list"
    /\ \E order \in Orders(ExistingShiftEvents(store[target])) :
         LET plan == DedupPlan(order) IN
         run' = [run EXCEPT ![r].pc = "dedup1",
                            ![r].existing = ByStart(plan.selected),
                            ![r].dups = plan.duplicatesToDelete]
    /\ UNCHANGED <<appVars, engine, store, nextId, now, started, failures, prev>>

EKDeduping(r) ==
    /\ engine = "ek"
    /\ run[r].pc \in {"dedup1", "dedup2"}
    /\ run[r].dups # <<>>

DedupCall(r, ok) ==
    LET d == Head(run[r].dups) IN Call("dedup", d.notes, d.id, d.end, ok)

\* try eventStore.remove(duplicate, span: .thisEvent) returns
EKDedupRemove(r) ==
    /\ EKDeduping(r)
    /\ store' = [store EXCEPT ![target] = Without(@, Head(run[r].dups))]
    /\ run' = [run EXCEPT ![r].dups = Tail(@),
                          ![r].log = Append(@, DedupCall(r, TRUE))]
    /\ UNCHANGED <<appVars, engine, nextId, now, started, failures, prev>>

\* try eventStore.remove(duplicate, span: .thisEvent) throws: syncShifts throws
EKDedupRemoveFail(r) ==
    /\ EKDeduping(r)
    /\ Failing
    /\ run' = [run EXCEPT ![r].pc = "aborted",
                          ![r].log = Append(@, DedupCall(r, FALSE))]
    /\ UNCHANGED <<appVars, engine, store, nextId, now, started, prev>>

\* the duplicate was already removed by another run and the call throws
EKDedupRemoveGone(r) ==
    /\ EKDeduping(r)
    /\ ~Held(Head(run[r].dups))
    /\ run' = [run EXCEPT ![r].pc = "aborted",
                          ![r].log = Append(@, DedupCall(r, FALSE))]
    /\ UNCHANGED <<appVars, engine, store, nextId, now, started, failures, prev>>

\* EKDoomed with the retention test off by one: an event that ends exactly
\* when the run plans is kept as well
EKDoomed_KeepsEndingNow(event, shifts, t) ==
    /\ extractShiftUID(event) # <<>>
    /\ ~(event.end <= t)
    /\ extractShiftUID(event)[1] \notin {s.uid : s \in Range(shifts)}

\* the filter that builds toDelete: marked, not over, not desired
EKDoomed(event, shifts, t) ==
    /\ extractShiftUID(event) # <<>>
    /\ ~(event.end < t)
    /\ extractShiftUID(event)[1] \notin {s.uid : s \in Range(shifts)}

\* existingUIDs, desiredUIDs and toDelete (past events are kept)
EKPlan(r) ==
    /\ engine = "ek"
    /\ run[r].pc = "dedup1"
    /\ run[r].dups = <<>>
    /\ run' = [run EXCEPT
                 ![r].pc = "delete",
                 ![r].planNow = now,
                 ![r].existingUIDs =
                     {extractShiftUID(e)[1] : e \in Range(run[r].existing)},
                 ![r].toDelete =
                     SelectSeq(run[r].existing, LAMBDA e : EKDoomed(e, run[r].shifts, now))]
    /\ UNCHANGED <<appVars, engine, store, nextId, now, started, failures, prev>>

EKDeleting(r) ==
    /\ engine = "ek"
    /\ run[r].pc = "delete"
    /\ run[r].toDelete # <<>>

\* the Shift built from the event about to be deleted
deletedShift(event) ==
    [uid |-> extractShiftUID(event)[1], title |-> event.title,
     start |-> event.start, end |-> event.end,
     location |-> event.location, memo |-> ""]

DeleteCall(r, ok) ==
    LET e == Head(run[r].toDelete) IN Call("delete", e.notes, e.id, e.end, ok)

\* one iteration of "for event in toDelete", the remove returns
EKDelete(r) ==
    /\ EKDeleting(r)
    /\ store' = [store EXCEPT ![target] = Without(@, Head(run[r].toDelete))]
    /\ run' = [run EXCEPT
                 ![r].toDelete = Tail(@),
                 ![r].result.deletedShifts =
                     Append(@, deletedShift(Head(run[r].toDelete))),
                 ![r].result.deleted = @ + 1,
                 ![r].log = Append(@, DeleteCall(r, TRUE))]
    /\ UNCHANGED <<appVars, engine, nextId, now, started, failures, prev>>

\* one iteration of "for event in toDelete", the remove throws
EKDeleteFail(r) ==
    /\ EKDeleting(r)
    /\ Failing
    /\ run' = [run EXCEPT
                 ![r].pc = "aborted",
                 ![r].result.deletedShifts =
                     Append(@, deletedShift(Head(run[r].toDelete))),
                 ![r].log = Append(@, DeleteCall(r, FALSE))]
    /\ UNCHANGED <<appVars, engine, store, nextId, now, started, prev>>

\* the event was already removed by another run and the remove throws
EKDeleteGone(r) ==
    /\ EKDeleting(r)
    /\ ~Held(Head(run[r].toDelete))
    /\ run' = [run EXCEPT
                 ![r].pc = "aborted",
                 ![r].result.deletedShifts =
                     Append(@, deletedShift(Head(run[r].toDelete))),
                 ![r].log = Append(@, DeleteCall(r, FALSE))]
    /\ UNCHANGED <<appVars, engine, store, nextId, now, started, failures, prev>>

\* the delete loop is over
EKDeleteDone(r) ==
    /\ engine = "ek"
    /\ run[r].pc = "delete"
    /\ run[r].toDelete = <<>>
    /\ run' = [run EXCEPT ![r].pc = "apply", ![r].i = 1]
    /\ UNCHANGED <<appVars, engine, store, nextId, now, started, failures, prev>>

EKApplying(r) ==
    /\ engine = "ek"
    /\ run[r].pc = "apply"
    /\ run[r].i <= Len(run[r].shifts)

\* the loop taken from the last shift to the first
CurrentShift_Backwards(r) == run[r].shifts[Len(run[r].shifts) + 1 - run[r].i]

CurrentShift(r) == run[r].shifts[run[r].i]

\* existingEvents.first(where: { extractShiftUID(from: $0) == shift.uid })
FirstWithUID(events, uid) ==
    CHOOSE k \in 1..Len(events) :
       /\ extractShiftUID(events[k]) = <<uid>>
       /\ \A j \in 1..(k - 1) : extractShiftUID(events[j]) # <<uid>>

EKUpdating(r) ==
    /\ EKApplying(r)
    /\ CurrentShift(r).uid \in run[r].existingUIDs
    /\ needsUpdate(run[r].existing[FirstWithUID(run[r].existing, CurrentShift(r).uid)],
                   CurrentShift(r))

\* the shift has an event and it differs: updateEvent, and the save returns
EKUpdate(r) ==
    /\ EKUpdating(r)
    /\ LET shift == CurrentShift(r)
           k == FirstWithUID(run[r].existing, shift.uid)
           saved == updateEvent(run[r].existing[k], shift, now)
       IN /\ store' = [store EXCEPT ![target] = Without(@, saved) \cup {saved}]
          /\ run' = [run EXCEPT
                       ![r].i = @ + 1,
                       ![r].existing[k] = saved,
                       ![r].result.updated = @ + 1,
                       ![r].result.updatedShifts = Append(@, shift),
                       ![r].log = Append(@, Call("update", <<shift.uid>>, saved.id,
                                                 saved.end, TRUE))]
    /\ UNCHANGED <<appVars, engine, nextId, now, started, failures, prev>>

UpdateFailed(r) ==
    LET shift == CurrentShift(r)
        k == FirstWithUID(run[r].existing, shift.uid)
    IN [run EXCEPT
          ![r].pc = "aborted",
          ![r].existing[k] = updateEvent(run[r].existing[k], shift, now),
          ![r].log = Append(@, Call("update", <<shift.uid>>, run[r].existing[k].id,
                                    shift.end, FALSE))]

\* the shift has an event and it differs: updateEvent, and the save throws
EKUpdateFail(r) ==
    /\ EKUpdating(r)
    /\ Failing
    /\ run' = UpdateFailed(r)
    /\ UNCHANGED <<appVars, engine, store, nextId, now, started, prev>>

\* the event was removed by another run in the meantime and the save throws
EKUpdateGone(r) ==
    /\ EKUpdating(r)
    /\ ~Held(run[r].existing[FirstWithUID(run[r].existing, CurrentShift(r).uid)])
    /\ run' = UpdateFailed(r)
    /\ UNCHANGED <<appVars, engine, store, nextId, now, started, failures, prev>>

\* the shift has an event with the same content: skipped, not counted
EKSkip(r) ==
    /\ EKApplying(r)
    /\ CurrentShift(r).uid \in run[r].existingUIDs
    /\ ~needsUpdate(run[r].existing[FirstWithUID(run[r].existing, CurrentShift(r).uid)],
                    CurrentShift(r))
    /\ run' = [run EXCEPT ![r].i = @ + 1]
    /\ UNCHANGED <<appVars, engine, store, nextId, now, started, failures, prev>>

\* the shift has no event: createEvent, and the save returns
EKCreate(r) ==
    /\ EKApplying(r)
    /\ CurrentShift(r).uid \notin run[r].existingUIDs
    /\ store' = [store EXCEPT ![target] = @ \cup {createEvent(CurrentShift(r), nextId, now)}]
    /\ nextId' = nextId + 1
    /\ run' = [run EXCEPT
                 ![r].i = @ + 1,
                 ![r].result.added = @ + 1,
                 ![r].result.addedShifts = Append(@, CurrentShift(r)),
                 ![r].log = Append(@, Call("create", <<CurrentShift(r).uid>>, nextId,
                                           CurrentShift(r).end, TRUE))]
    /\ UNCHANGED <<appVars, engine, now, started, failures, prev>>

\* the shift has no event: createEvent, and the save throws
EKCreateFail(r) ==
    /\ EKApplying(r)
    /\ CurrentShift(r).uid \notin run[r].existingUIDs
    /\ Failing
    /\ run' = [run EXCEPT
                 ![r].pc = "aborted",
                 ![r].log = Append(@, Call("create", <<CurrentShift(r).uid>>, 0,
                                           CurrentShift(r).end, FALSE))]
    /\ UNCHANGED <<appVars, engine, store, nextId, now, started, prev>>

\* the closing deduplicateShiftEvents(getExistingShiftEvents(...)): its list
EKList2(r) ==
    /\ engine = "ek"
    /\ run[r].pc = "apply"
    /\ run[r].i > Len(run[r].shifts)
    /\ \E order \in Orders(ExistingShiftEvents(store[target])) :
         run' = [run EXCEPT ![r].pc = "dedup2",
                            ![r].dups = DedupPlan(order).duplicatesToDelete]
    /\ UNCHANGED <<appVars, engine, store, nextId, now, started, failures, prev>>

\* return result
EKReturn(r) ==
    /\ engine = "ek"
    /\ run[r].pc = "dedup2"
    /\ run[r].dups = <<>>
    /\ run' = [run EXCEPT ![r].pc = "done"]
    /\ UNCHANGED <<appVars, engine, store, nextId, now, started, failures, prev>>

\* the steps of a run whose store calls all succeed
EKStep(r) ==
    \/ EKList(r)
    \/ EKDedupRemove(r)
    \/ EKPlan(r)
    \/ EKDelete(r)
    \/ EKDeleteDone(r)
    \/ EKUpdate(r)
    \/ EKSkip(r)
    \/ EKCreate(r)
    \/ EKList2(r)
    \/ EKReturn(r)

\* the steps in which a store call is made with the handle of an event that
\* another run has removed in the meantime, and throws
EKGone(r) ==
    \/ EKDedupRemoveGone(r)
    \/ EKDeleteGone(r)
    \/ EKUpdateGone(r)

\* the steps in which a store call fails
EKFail(r) ==
    \/ EKDedupRemoveFail(r)
    \/ EKDeleteFail(r)
    \/ EKUpdateFail(r)
    \/ EKCreateFail(r)

----------------------------------------------------------------------------
(* GoogleCalendarService.syncShifts(_:to:)                                 *)

\* the delete plan of the Google engine: marked, not over, not desired
GoogleDoomed(event, shifts, t) ==
    /\ extractShiftUID(event) # <<>>
    /\ ~(event.end < t)
    /\ extractShiftUID(event)[1] \notin {s.uid : s \in Range(shifts)}

\* getExistingShiftEvents returns; existingUIDs, desiredUIDs and toDelete
GoogleList(r) ==
    /\ engine = "google"
    /\ run[r].pc = "list"
    /\ \E order \in Orders(ExistingShiftEvents(store[target])) :
         run' = [run EXCEPT
                   ![r].pc = "delete",
                   ![r].planNow = now,
                   ![r].existing = order,
                   ![r].existingUIDs = {extractShiftUID(e)[1] : e \in Range(order)},
                   ![r].toDelete =
                       SelectSeq(order, LAMBDA e : GoogleDoomed(e, run[r].shifts, now))]
    /\ UNCHANGED <<appVars, engine, store, nextId, now, started, failures, prev>>

\* getExistingShiftEvents throws (transport, decoding): syncShifts throws
GoogleListFail(r) ==
    /\ engine = "google"
    /\ run[r].pc = "list"
    /\ Failing
    /\ run' = [run EXCEPT ![r].pc = "aborted", ![r].listFailed = TRUE]
    /\ UNCHANGED <<appVars, engine, store, nextId, now, started, prev>>

GoogleDeleting(r) ==
    /\ engine = "google"
    /\ run[r].pc = "delete"
    /\ run[r].toDelete # <<>>

\* deleteEvent answers 204 or 200
GoogleDelete(r) ==
    /\ GoogleDeleting(r)
    /\ Held(Head(run[r].toDelete))
    /\ store' = [store EXCEPT ![target] = Without(@, Head(run[r].toDelete))]
    /\ run' = [run EXCEPT ![r].toDelete = Tail(@),
                          ![r].result.deleted = @ + 1,
                          ![r].log = Append(@, DeleteCall(r, TRUE))]
    /\ UNCHANGED <<appVars, engine, nextId, now, started, failures, prev>>

\* deleteEvent throws: syncShifts throws
GoogleDeleteFail(r) ==
    /\ GoogleDeleting(r)
    /\ Failing
    /\ run' = [run EXCEPT ![r].pc = "aborted",
                          ![r].log = Append(@, DeleteCall(r, FALSE))]
    /\ UNCHANGED <<appVars, engine, store, nextId, now, started, prev>>

\* the event is no longer in the calendar: the store answers 404 or 410,
\* which deleteEvent does not accept, and syncShifts throws
GoogleDeleteGone(r) ==
    /\ GoogleDeleting(r)
    /\ ~Held(Head(run[r].toDelete))
    /\ run' = [run EXCEPT ![r].pc = "aborted",
                          ![r].log = Append(@, DeleteCall(r, FALSE))]
    /\ UNCHANGED <<appVars, engine, store, nextId, now, started, failures, prev>>

\* the delete loop is over
GoogleDeleteDone(r) ==
    /\ engine = "google"
    /\ run[r].pc = "delete"
    /\ run[r].toDelete = <<>>
    /\ run' = [run EXCEPT ![r].pc = "apply", ![r].i = 1]
    /\ UNCHANGED <<appVars, engine, store, nextId, now, started, failures, prev>>

GoogleApplying(r) ==
    /\ engine = "google"
    /\ run[r].pc = "apply"
    /\ run[r].i <= Len(run[r].shifts)

\* GoogleCalendarService.createEventBody, written over the event with this id
createEventBody(shift, id, t) ==
    Event(id, <<>>, <<shift.uid>>, shift.title, shift.start, shift.end,
          shift.location, <<t>>)

\* the shift has an event: updateEvent (PUT of the whole body) answers 200
GoogleUpdate(r) ==
    /\ GoogleApplying(r)
    /\ CurrentShift(r).uid \in run[r].existingUIDs
    /\ Held(run[r].existing[FirstWithUID(run[r].existing, CurrentShift(r).uid)])
    /\ LET shift == CurrentShift(r)
           existingEvent == run[r].existing[FirstWithUID(run[r].existing, shift.uid)]
           saved == createEventBody(shift, existingEvent.id, now)
       IN /\ store' = [store EXCEPT ![target] = Without(@, saved) \cup {saved}]
          /\ run' = [run EXCEPT
                       ![r].i = @ + 1,
                       ![r].result.updated = @ + 1,
                       ![r].log = Append(@, Call("update", <<shift.uid>>, saved.id,
                                                 saved.end, TRUE))]
    /\ UNCHANGED <<appVars, engine, nextId, now, started, failures, prev>>

\* the shift has an event: updateEvent throws, syncShifts throws
GoogleUpdateFail(r) ==
    /\ GoogleApplying(r)
    /\ CurrentShift(r).uid \in run[r].existingUIDs
    /\ Failing
    /\ LET shift == CurrentShift(r)
           existingEvent == run[r].existing[FirstWithUID(run[r].existing, shift.uid)]
       IN run' = [run EXCEPT
                    ![r].pc = "aborted",
                    ![r].log = Append(@, Call("update", <<shift.uid>>, existingEvent.id,
                                              shift.end, FALSE))]
    /\ UNCHANGED <<appVars, engine, store, nextId, now, started, prev>>

\* the shift has an event that is no longer in the calendar: the PUT is not
\* answered 200, updateEvent throws, syncShifts throws
GoogleUpdateGone(r) ==
    /\ GoogleApplying(r)
    /\ CurrentShift(r).uid \in run[r].existingUIDs
    /\ LET shift == CurrentShift(r)
           existingEvent == run[r].existing[FirstWithUID(run[r].existing, shift.uid)]
       IN /\ ~Held(existingEvent)
          /\ run' = [run EXCEPT
                       ![r].pc = "aborted",
                       ![r].log = Append(@, Call("update", <<shift.uid>>, existingEvent.id,
                                                 shift.end, FALSE))]
    /\ UNCHANGED <<appVars, engine, store, nextId, now, started, failures, prev>>

\* the shift has no event: createEvent (POST) answers 200
GoogleCreate(r) ==
    /\ GoogleApplying(r)
    /\ CurrentShift(r).uid \notin run[r].existingUIDs
    /\ store' = [store EXCEPT
                   ![target] = @ \cup {createEventBody(CurrentShift(r), nextId, now)}]
    /\ nextId' = nextId + 1
    /\ run' = [run EXCEPT
                 ![r].i = @ + 1,
                 ![r].result.added = @ + 1,
                 ![r].log = Append(@, Call("create", <<CurrentShift(r).uid>>, nextId,
                                           CurrentShift(r).end, TRUE))]
    /\ UNCHANGED <<appVars, engine, now, started, failures, prev>>

\* the shift has no event: createEvent throws, syncShifts throws
GoogleCreateFail(r) ==
    /\ GoogleApplying(r)
    /\ CurrentShift(r).uid \notin run[r].existingUIDs
    /\ Failing
    /\ run' = [run EXCEPT
                 ![r].pc = "aborted",
                 ![r].log = Append(@, Call("create", <<CurrentShift(r).uid>>, 0,
                                           CurrentShift(r).end, FALSE))]
    /\ UNCHANGED <<appVars, engine, store, nextId, now, started, prev>>

\* return result
GoogleReturn(r) ==
    /\ engine = "google"
    /\ run[r].pc = "apply"
    /\ run[r].i > Len(run[r].shifts)
    /\ run' = [run EXCEPT ![r].pc = "done"]
    /\ UNCHANGED <<appVars, engine, store, nextId, now, started, failures, prev>>

GoogleStep(r) ==
    \/ GoogleList(r)
    \/ GoogleDelete(r)
    \/ GoogleDeleteDone(r)
    \/ GoogleUpdate(r)
    \/ GoogleCreate(r)
    \/ GoogleReturn(r)

\* the steps in which a call names an event that is no longer there
GoogleGone(r) ==
    \/ GoogleDeleteGone(r)
    \/ GoogleUpdateGone(r)

GoogleFail(r) ==
    \/ GoogleListFail(r)
    \/ GoogleDeleteFail(r)
    \/ GoogleUpdateFail(r)
    \/ GoogleCreateFail(r)

----------------------------------------------------------------------------
(* syncShiftsToCalDAV of the Go CLI                                        *)

\* the loop that builds desiredSet and desiredShifts
RECURSIVE desiredShifts(_, _, _)
desiredShifts(shifts, k, acc) ==
    IF k > Len(shifts) THEN acc
    ELSE IF shifts[k].start = shifts[k].end THEN desiredShifts(shifts, k + 1, acc)
    ELSE IF \E j \in 1..Len(acc) : acc[j].uid = shifts[k].uid
    THEN desiredShifts(shifts, k + 1, acc)
    ELSE desiredShifts(shifts, k + 1, Append(acc, shifts[k]))

\* listShiftEventUIDs: the names of the shift-*.ics resources of the calendar
listShiftEventUIDs(S) == {e \in S : e.res # <<>>}

\* listShiftEventUIDs returns; toDelete in the order the map is ranged over
GoList(r) ==
    /\ engine = "go"
    /\ run[r].pc = "list"
    /\ LET desired == desiredShifts(run[r].shifts, 1, <<>>)
           doomed == {e \in listShiftEventUIDs(store[target]) :
                        e.res[1] \notin {s.uid : s \in Range(desired)}}
       IN \E order \in Orders(doomed) :
            run' = [run EXCEPT
                      ![r].pc = "delete",
                      ![r].planNow = now,
                      ![r].desired = desired,
                      ![r].existingUIDs =
                          {e.res[1] : e \in listShiftEventUIDs(store[target])},
                      ![r].toDelete = order]
    /\ UNCHANGED <<appVars, engine, store, nextId, now, started, failures, prev>>

\* listShiftEventUIDs fails: the error is printed and the run goes on with
\* an empty existingUIDs
GoListFail(r) ==
    /\ engine = "go"
    /\ run[r].pc = "list"
    /\ Failing
    /\ run' = [run EXCEPT
                 ![r].pc = "delete",
                 ![r].planNow = now,
                 ![r].listFailed = TRUE,
                 ![r].desired = desiredShifts(run[r].shifts, 1, <<>>),
                 ![r].existingUIDs = {},
                 ![r].toDelete = <<>>]
    /\ UNCHANGED <<appVars, engine, store, nextId, now, started, prev>>

GoDeleting(r) ==
    /\ engine = "go"
    /\ run[r].pc = "delete"
    /\ run[r].toDelete # <<>>

GoDeleteCall(r, ok) ==
    LET e == Head(run[r].toDelete) IN Call("delete", e.res, e.id, e.end, ok)

\* DELETE <uid>.ics answers 200, 204 or 404
GoDelete(r) ==
    /\ GoDeleting(r)
    /\ store' = [store EXCEPT
                   ![target] = {x \in @ : x.res # Head(run[r].toDelete).res}]
    /\ run' = [run EXCEPT ![r].toDelete = Tail(@),
                          ![r].log = Append(@, GoDeleteCall(r, TRUE))]
    /\ UNCHANGED <<appVars, engine, nextId, now, started, failures, prev>>

\* DELETE fails (transport error or another status): printed, next uid
GoDeleteFail(r) ==
    /\ GoDeleting(r)
    /\ Failing
    /\ run' = [run EXCEPT ![r].toDelete = Tail(@),
                          ![r].log = Append(@, GoDeleteCall(r, FALSE))]
    /\ UNCHANGED <<appVars, engine, store, nextId, now, started, prev>>

\* the delete loop is over
GoDeleteDone(r) ==
    /\ engine = "go"
    /\ run[r].pc = "delete"
    /\ run[r].toDelete = <<>>
    /\ run' = [run EXCEPT ![r].pc = "apply", ![r].i = 1]
    /\ UNCHANGED <<appVars, engine, store, nextId, now, started, failures, prev>>

GoPutting(r) ==
    /\ engine = "go"
    /\ run[r].pc = "apply"
    /\ run[r].i <= Len(run[r].desired)

\* buildSingleEventICAL: the resource <uid>.ics; the description holds the memo
\* only, so the event carries no "shift-uid:" marker
buildSingleEventICAL(s, id, t) ==
    Event(id, <<s.uid>>, <<>>, s.title, s.start, s.end, s.location, <<t>>)

\* PUT <uid>.ics answers 200, 201 or 204: the resource is created or replaced
GoPut(r) ==
    /\ GoPutting(r)
    /\ LET entry == run[r].desired[run[r].i]
           old == {x \in store[target] : x.res = <<entry.uid>>}
           id == IF old = {} THEN nextId ELSE (CHOOSE x \in old : TRUE).id
       IN /\ store' = [store EXCEPT
                         ![target] = (@ \ old) \cup {buildSingleEventICAL(entry, id, now)}]
          /\ nextId' = IF old = {} THEN nextId + 1 ELSE nextId
          /\ run' = [run EXCEPT
                       ![r].i = @ + 1,
                       ![r].log = Append(@, Call("put", <<entry.uid>>, id, entry.end, TRUE))]
    /\ UNCHANGED <<appVars, engine, now, started, failures, prev>>

\* PUT fails (transport error or another status): printed, next shift
GoPutFail(r) ==
    /\ GoPutting(r)
    /\ Failing
    /\ LET entry == run[r].desired[run[r].i]
       IN run' = [run EXCEPT
                    ![r].i = @ + 1,
                    ![r].log = Append(@, Call("put", <<entry.uid>>, 0, entry.end, FALSE))]
    /\ UNCHANGED <<appVars, engine, store, nextId, now, started, prev>>

\* return nil
GoReturn(r) ==
    /\ engine = "go"
    /\ run[r].pc = "apply"
    /\ run[r].i > Len(run[r].desired)
    /\ run' = [run EXCEPT ![r].pc = "done"]
    /\ UNCHANGED <<appVars, engine, store, nextId, now, started, failures, prev>>

GoStep(r) ==
    \/ GoList(r)
    \/ GoDelete(r)
    \/ GoDeleteDone(r)
    \/ GoPut(r)
    \/ GoReturn(r)

GoFail(r) ==
    \/ GoListFail(r)
    \/ GoDeleteFail(r)
    \/ GoPutFail(r)

----------------------------------------------------------------------------
(* Specifications.                                                         *)

Engines == {"ek", "google", "go"}

\* Spec: one installation runs its engine again and again, one run at a
\* time, and every store call succeeds.
Init == InitWith(Engines, MaxFail, 0)

Next ==
    \/ Tick
    \/ \E shifts \in ShiftLists : StartRun(1, shifts)
    \/ EKStep(1)
    \/ GoogleStep(1)
    \/ GoStep(1)

Spec == Init /\ [][Next]_vars

\* SpecFail: one run in which store calls can fail.
InitFail == InitWith(Engines, 0, MaxRuns - 1)

NextFail ==
    \/ Next
    \/ EKFail(1)
    \/ GoogleFail(1)
    \/ GoFail(1)

SpecFail == InitFail /\ [][NextFail]_vars

\* SpecAbsent: one run, during which somebody else (another run, the user
\* in the calendar app) removes events of this tool from the calendar.
InitAbsent == InitWith(Engines, MaxFail, MaxRuns - 1)

ExternalDelete(event) ==
    /\ run[1].pc \in {"dedup1", "delete", "apply", "dedup2"}
    /\ event \in store[target]
    /\ event.notes # <<>> \/ event.res # <<>>
    /\ store' = [store EXCEPT ![target] = @ \ {event}]
    /\ UNCHANGED <<appVars, engine, nextId, now, run, started, failures, prev>>

NextAbsent ==
    \/ Next
    \/ \E event \in store[target] : ExternalDelete(event)
    \/ EKGone(1)
    \/ GoogleGone(1)

SpecAbsent == InitAbsent /\ [][NextAbsent]_vars

\* SpecForeign: the calendar also holds two events that are not of this tool
\* but whose notes contain "shift-uid:" with nothing after it.
EmptyMark == [prefix |-> <<>>, hash |-> <<>>]

ForeignEvents ==
    {Event(MaxInit + k, <<>>, <<EmptyMark>>, "lunch", 2, 3, "", <<0>>) : k \in 1..2}

InitForeign ==
    /\ engine \in Engines
    /\ \E S \in InitialStores(engine) :
          store = [t \in Targets |->
                     IF t = TargetOf(engine) THEN S \cup ForeignEvents ELSE {}]
    /\ nextId = MaxInit + 3
    /\ now = 1
    /\ run = [r \in RunIds |-> IdleRun]
    /\ started = MaxRuns - 1
    /\ failures = MaxFail
    /\ prev = NoPrev
    /\ FreshApp

SpecForeign == InitForeign /\ [][Next]_vars

\* the EventKit engine or the Go engine, run with one shift list and then,
\* once that run has returned, with another; every store call succeeds
InitRerun == InitWith({"ek", "go"}, MaxFail, 0)

StartRerun(shifts) ==
    /\ started <= 1
    /\ Finished(1)
    /\ started' = started + 1
    /\ prev' = [pc |-> run[1].pc, shifts |-> run[1].shifts, events |-> <<>>]
    /\ run' = [run EXCEPT ![1] = [IdleRun EXCEPT !.pc = "list", !.shifts = shifts]]
    /\ UNCHANGED <<appVars, engine, store, nextId, now, failures>>

NextRerun ==
    \/ Tick
    \/ \E shifts \in ShiftLists : StartRerun(shifts)
    \/ EKStep(1)
    \/ GoStep(1)

SpecRerun == InitRerun /\ [][NextRerun]_vars

\* SpecCancel: a run of a Swift engine is cut short between two of its calls
\* (the app is suspended or the background task expires) and the next run
\* goes through; every store call succeeds.
InitCancel == InitWith({"ek", "google"}, MaxFail, 0)

Cancel(r) ==
    /\ started = 1
    /\ ~Finished(r)
    /\ run[r].log # <<>>
    /\ run' = [run EXCEPT ![r].pc = "aborted"]
    /\ UNCHANGED <<appVars, engine, store, nextId, now, started, failures, prev>>

NextCancel ==
    \/ Tick
    \/ \E shifts \in ShiftLists : StartRerun(shifts)
    \/ Cancel(1)
    \/ EKStep(1)
    \/ GoogleStep(1)

SpecCancel == InitCancel /\ [][NextCancel]_vars

----------------------------------------------------------------------------
(* BackgroundTaskManager.performSync: the shift pages of three months are  *)
(* fetched one after the other, the list is synced to the iCloud calendar  *)
(* (run 1) and then to the Google calendar (run 2), and the summed result  *)
(* is returned; an error thrown anywhere is logged and thrown again.       *)
(* While the pages are fetched run 1 holds the month in i and allShifts in *)
(* shifts; prev.pc holds how performSync ended.                            *)

\* fetchCurrentAndNextMonthShifts: last month, this month, next month
Months == 1..3

MonthOf(shift) == (shift.start \div 2) + 1

\* what the page of a month can show
MonthPages(m) == UNION {Orders(S) : S \in SUBSET {s \in Catalogue : MonthOf(s) = m}}

\* SyncHistoryManager: at most this many entries are kept
maxEntries == 20

Sources == {"manual", "background", "automation"}

\* SyncLogEntry.success / SyncLogEntry.failure; id is the fresh UUID
SyncLogEntry(id, date, source, result, success) ==
    [id |-> id, date |-> date, source |-> source, result |-> result,
     success |-> success]

NoChanges == [added |-> 0, updated |-> 0, deleted |-> 0]

\* entries.sorted { $0.date > $1.date }
RECURSIVE insertByDate(_, _)
insertByDate(sorted, entry) ==
    IF sorted = <<>> THEN <<entry>>
    ELSE IF entry.date > Head(sorted).date THEN <<entry>> \o sorted
    ELSE <<Head(sorted)>> \o insertByDate(Tail(sorted), entry)

RECURSIVE sortedByDate(_)
sortedByDate(entries) ==
    IF entries = <<>> THEN <<>>
    ELSE insertByDate(sortedByDate(Tail(entries)), Head(entries))

\* getHistory on the stored array
getHistory(stored) == sortedByDate(stored)

addEntry_KeepsOldest(stored, entry) ==
    LET entries == <<entry>> \o getHistory(stored) IN
    IF Len(entries) > maxEntries
    THEN SubSeq(entries, Len(entries) - maxEntries + 1, Len(entries))
    ELSE entries

\* addEntry: what saveEntries stores
addEntry(stored, entry) ==
    LET entries == <<entry>> \o getHistory(stored) IN
    IF Len(entries) > maxEntries THEN SubSeq(entries, 1, maxEntries) ELSE entries

\* loadPreviousShifts / savePreviousShifts: the cache under "savedShifts"
loadPreviousShifts == defaults.savedShifts

\* currentSyncRange: from the start of last month to the start of the month
\* after next
currentSyncRange == [start |-> WinStart, end |-> WinEnd + 1]

\* the first day of this month, the second of the three fetched
startOfMonth == WinStart + 2

replaceShifts_KeepsAll(existing, incoming, rangeStart, rangeEnd) ==
    SortSeq(existing \o incoming, LAMBDA a, b : a.start < b.start)

\* replaceShifts: the cached shifts outside the range, then the new ones,
\* sorted by start
replaceShifts(existing, incoming, rangeStart, rangeEnd) ==
    LET kept == SelectSeq(existing, LAMBDA s : s.start < rangeStart \/ s.start >= rangeEnd)
    IN SortSeq(kept \o incoming, LAMBDA a, b : a.start < b.start)

\* detectChanges(previous:new:)
detectChanges(previous, new) ==
    LET previousUIDs == {s.uid : s \in Range(previous)}
        newUIDs == {s.uid : s \in Range(new)}
        old(n) == previous[CHOOSE k \in DOMAIN previous :
                              /\ previous[k].uid = n.uid
                              /\ \A j \in 1..(k - 1) : previous[j].uid # n.uid]
    IN [added |-> SelectSeq(new, LAMBDA s : s.uid \notin previousUIDs),
        removed |-> SelectSeq(previous, LAMBDA s : s.uid \notin newUIDs),
        modified |->
            [k \in 1..Len(SelectSeq(new, LAMBDA n : n.uid \in previousUIDs /\
                                       (old(n).start # n.start \/ old(n).end # n.end))) |->
                LET n == SelectSeq(new, LAMBDA m : m.uid \in previousUIDs /\
                                       (old(m).start # m.start \/ old(m).end # m.end))[k]
                IN [old |-> old(n), new |-> n]]]

\* calendar.isDate(_:inSameDayAs:); two starts of the model are a day apart
\* or more
sameDay(a, b) == a.start = b.start

\* the loops that pair a removed shift with an added one of the same day and
\* shop: matched holds the pairs <<removedIndex, addedIndex>> found so far
RECURSIVE pairChanges(_, _, _, _)
pairChanges(removed, added, r, matched) ==
    IF r > Len(removed) THEN matched
    ELSE LET free == {a \in 1..Len(added) :
                        /\ \A j \in 1..Len(matched) : matched[j][2] # a
                        /\ sameDay(removed[r], added[a])
                        /\ removed[r].location = added[a].location}
         IN IF free = {} THEN pairChanges(removed, added, r + 1, matched)
            ELSE pairChanges(removed, added, r + 1,
                     Append(matched, <<r, CHOOSE a \in free : \A b \in free : a <= b>>))

Notice(inv, kind, old, shift) == [inv |-> inv, kind |-> kind, old |-> old, shift |-> shift]

\* notifyChanges: the notifications sent, in the order they are sent
notifyChanges(inv, changes) ==
    LET matched == pairChanges(changes.removed, changes.added, 1, <<>>)
        addedIx == {a \in 1..Len(changes.added) :
                       \A j \in 1..Len(matched) : matched[j][2] # a}
        removedIx == {r \in 1..Len(changes.removed) :
                       \A j \in 1..Len(matched) : matched[j][1] # r}
        added == SelectSeq([a \in 1..Len(changes.added) |->
                               IF a \in addedIx THEN <<changes.added[a]>> ELSE <<>>],
                           LAMBDA x : x # <<>>)
        removed == SelectSeq([r \in 1..Len(changes.removed) |->
                               IF r \in removedIx THEN <<changes.removed[r]>> ELSE <<>>],
                             LAMBDA x : x # <<>>)
        modified == changes.modified \o
                    [j \in 1..Len(matched) |->
                        [old |-> changes.removed[matched[j][1]],
                         new |-> changes.added[matched[j][2]]]]
    IN [k \in 1..Len(SelectSeq(added, LAMBDA x : x[1].start >= startOfMonth)) |->
           Notice(inv, "added", <<>>,
                  SelectSeq(added, LAMBDA x : x[1].start >= startOfMonth)[k][1].uid)]
       \o [k \in 1..Len(SelectSeq(modified, LAMBDA m : m.new.start >= startOfMonth)) |->
           LET m == SelectSeq(modified, LAMBDA x : x.new.start >= startOfMonth)[k]
           IN Notice(inv, "changed", <<m.old.uid>>, m.new.uid)]
       \o [k \in 1..Len(SelectSeq(removed, LAMBDA x : x[1].start >= startOfMonth)) |->
           Notice(inv, "removed", <<>>,
                  SelectSeq(removed, LAMBDA x : x[1].start >= startOfMonth)[k][1].uid)]

\* the source performSync is called with: the refresh task when one is being
\* handled, else the sync button
SourceOf == IF task.pc = "none" THEN "manual" ELSE "background"

\* the invocation of performSync in progress, or the last one
Invocation == call[Len(call)]

InitPerform ==
    /\ engine = "ek"
    /\ \E S \in InitialStores("ek"), G \in InitialStores("google") :
          /\ Cardinality(G) <= 1
          /\ store = [t \in Targets |-> IF t = "icloud" THEN S ELSE G]
    /\ nextId = MaxInit + 1
    /\ now = 1
    /\ run = [r \in RunIds |-> IdleRun]
    /\ started = 0
    /\ failures = 0
    /\ prev = NoPrev
    /\ FreshApp

\* performSync is called: credentials and login are in order
StartPerform ==
    /\ started = 0
    /\ started' = 1
    /\ run' = [run EXCEPT ![1].pc = "fetch"]
    /\ call' = Append(call, [inv |-> 1, before |-> defaults, new |-> <<>>,
                             previous |-> <<>>])
    /\ UNCHANGED <<engine, store, nextId, now, failures, prev, defaults, notified,
                   task, logging>>

\* try await fetchShiftPage and try parseShifts of one month return
FetchMonth(page) ==
    /\ run[1].pc = "fetch"
    /\ run[1].i \in Months
    /\ page \in MonthPages(run[1].i)
    /\ run' = [run EXCEPT ![1].shifts = @ \o page, ![1].i = @ + 1]
    /\ UNCHANGED <<appVars, engine, store, nextId, now, started, failures, prev>>

\* the fetch or the parse of one month throws: fetchCurrentAndNextMonthShifts
\* throws, and with it go the months it had fetched
FetchMonthFail ==
    /\ run[1].pc = "fetch"
    /\ run[1].i \in Months
    /\ Failing
    /\ run' = [run EXCEPT ![1].pc = "aborted",
                          ![1].log = Append(@, Call("fetch", <<>>, run[1].i, 0, FALSE))]
    /\ UNCHANGED <<appVars, engine, store, nextId, now, started, prev>>

\* all pages are in: the changes against the cache are notified, then
\* CalendarService.syncShifts is called with the list
SyncICloud ==
    /\ run[1].pc = "fetch"
    /\ run[1].i \notin Months
    /\ run' = [run EXCEPT ![1].pc = "list", ![1].i = 1]
    /\ notified' = notified \o
          notifyChanges(Invocation.inv, detectChanges(loadPreviousShifts, run[1].shifts))
    /\ call' = [call EXCEPT ![Len(call)].new = run[1].shifts,
                            ![Len(call)].previous = loadPreviousShifts]
    /\ UNCHANGED <<engine, store, nextId, now, started, failures, prev, defaults,
                   task, logging>>

\* the iCloud sync has returned: GoogleCalendarService.syncShifts is called
SyncGoogle ==
    /\ engine = "ek"
    /\ run[1].pc = "done"
    /\ run[2].pc = "idle"
    /\ engine' = "google"
    /\ run' = [run EXCEPT ![2] = [IdleRun EXCEPT !.pc = "list", !.shifts = run[1].shifts]]
    /\ UNCHANGED <<appVars, store, nextId, now, started, failures, prev>>

\* BackgroundTaskManager.mergeUniqueShifts
mergeUniqueShifts(existing, incoming) ==
    LET byUID == [u \in {s.uid : s \in Range(existing) \cup Range(incoming)} |->
                    IF \E s \in Range(incoming) : s.uid = u
                    THEN incoming[CHOOSE k \in DOMAIN incoming :
                                     /\ incoming[k].uid = u
                                     /\ \A j \in DOMAIN incoming : j > k => incoming[j].uid # u]
                    ELSE existing[CHOOSE k \in DOMAIN existing :
                                     /\ existing[k].uid = u
                                     /\ \A j \in DOMAIN existing : j > k => existing[j].uid # u]]
    IN SortSeq(CHOOSE f \in Orders(Range(byUID)) : TRUE, LAMBDA a, b : a.start < b.start)

\* both syncs have returned: the results are summed, the cache, the date of
\* the last sync and the history are written, and the result is returned
PerformReturn ==
    /\ prev.pc = "idle"
    /\ run[1].pc = "done"
    /\ run[2].pc = "done"
    /\ prev' = [pc |-> "returned", shifts |-> run[1].shifts, events |-> <<>>]
    /\ defaults' =
          [savedShifts |-> replaceShifts(Invocation.previous, run[1].shifts,
                                         currentSyncRange.start, currentSyncRange.end),
           lastSyncDate |-> <<now>>,
           syncHistory |->
              addEntry(defaults.syncHistory,
                       SyncLogEntry(Invocation.inv, now, SourceOf,
                                    [added |-> run[1].result.added + run[2].result.added,
                                     updated |-> run[1].result.updated + run[2].result.updated,
                                     deleted |-> run[1].result.deleted + run[2].result.deleted],
                                    TRUE))]
    /\ run' = [run EXCEPT
                 ![1].result =
                    [added |-> @.added + run[2].result.added,
                     updated |-> @.updated + run[2].result.updated,
                     deleted |-> @.deleted + run[2].result.deleted,
                     addedShifts |-> mergeUniqueShifts(@.addedShifts, run[2].result.addedShifts),
                     updatedShifts |->
                        mergeUniqueShifts(@.updatedShifts, run[2].result.updatedShifts),
                     deletedShifts |->
                        mergeUniqueShifts(@.deletedShifts, run[2].result.deletedShifts)]]
    /\ UNCHANGED <<engine, store, nextId, now, started, failures, notified, task,
                   logging, call>>

\* the fetch or one of the syncs has thrown: logFailure, and the error is
\* thrown to the caller; nothing after the throwing statement has run
PerformThrow ==
    /\ prev.pc = "idle"
    /\ run[1].pc = "aborted" \/ run[2].pc = "aborted"
    /\ prev' = [pc |-> "thrown", shifts |-> run[1].shifts, events |-> <<>>]
    /\ defaults' = [defaults EXCEPT
          !.syncHistory = addEntry(@, SyncLogEntry(Invocation.inv, now, SourceOf,
                                                   NoChanges, FALSE))]
    /\ UNCHANGED <<engine, store, nextId, now, run, started, failures, notified,
                   task, logging, call>>

NextPerform ==
    \/ StartPerform
    \/ \E page \in ShiftLists : FetchMonth(page)
    \/ FetchMonthFail
    \/ SyncICloud
    \/ EKStep(1)
    \/ EKFail(1)
    \/ SyncGoogle
    \/ GoogleStep(2)
    \/ GoogleFail(2)
    \/ PerformReturn
    \/ PerformThrow

SpecPerform == InitPerform /\ [][NextPerform]_vars

----------------------------------------------------------------------------
(* The iOS app (CalendarService) and the Go CLI used on the same iCloud    *)
(* calendar, one run after the other, with the same shift list.            *)

\* the calendar was used before by the one tool or by the other
InitMixed ==
    /\ engine \in {"ek", "go"}
    /\ \E S \in InitialStores(engine) :
          store = [t \in Targets |-> IF t = "icloud" THEN S ELSE {}]
    /\ nextId = MaxInit + 1
    /\ now = 1
    /\ run = [r \in RunIds |-> IdleRun]
    /\ started = 0
    /\ failures = MaxFail
    /\ prev = NoPrev
    /\ FreshApp

\* the next run is made by either tool; the shift site shows what it showed
StartEither(e, shifts) ==
    /\ Finished(1)
    /\ started < MaxRuns
    /\ started > 0 => shifts = run[1].shifts
    /\ engine' = e
    /\ started' = started + 1
    /\ prev' = [pc |-> run[1].pc, shifts |-> run[1].shifts, events |-> <<>>]
    /\ run' = [run EXCEPT ![1] = [IdleRun EXCEPT !.pc = "list", !.shifts = shifts]]
    /\ UNCHANGED <<appVars, store, nextId, now, failures>>

NextMixed ==
    \/ \E e \in {"ek", "go"}, shifts \in ShiftLists : StartEither(e, shifts)
    \/ EKStep(1)
    \/ GoStep(1)

SpecMixed == InitMixed /\ [][NextMixed]_vars

----------------------------------------------------------------------------
(* Shift.init and Shift.makeUID on their own: processes in any time zone   *)
(* build shifts from instants and a location.                              *)

IdStarts == {0, 1, 60}

IdEnds == {61, 62, 61 + MinutesPerDay}

IdShifts ==
    [title : {TitleDefault, "shift"}, start : IdStarts, end : IdEnds,
     location : {"A", "B"}, memo : {"", "memo"}]

InitIdentity ==
    /\ engine = "ek"
    /\ store = [t \in Targets |-> {}]
    /\ nextId = 1
    /\ now = 1
    /\ run = [r \in RunIds |-> IdleRun]
    /\ started = 0
    /\ failures = 0
    /\ prev = NoPrev
    /\ FreshApp

\* Shift.init(title:start:end:location:memo:) in a process of this time zone
ShiftInit(zone, s) ==
    /\ Len(call) < MaxCalls
    /\ call' = Append(call, [zone |-> zone, shift |-> s,
                             uid |-> makeUIDIn(zone, s.start, s.end, s.location)])
    /\ UNCHANGED <<syncVars, defaults, notified, task, logging>>

NextIdentity == \E zone \in TimeZones, s \in IdShifts : ShiftInit(zone, s)

SpecIdentity == InitIdentity /\ [][NextIdentity]_vars

----------------------------------------------------------------------------
(* Two runs of CalendarService.syncShifts on the same calendar with no lock *)
(* between them (a manual sync while the background refresh is running),   *)
(* followed by one run on its own.  A remove or save made with the handle   *)
(* of an event the other run has removed either returns or throws.         *)

\* the calendar holds marked events in the slot of the second shift: the
\* event of the first shift is due for an update, that of the second is not
RaceStores ==
    {S \in InitialStores("ek") :
        \A e \in S : extractShiftUID(e) # <<>> /\ e.start = SlotSeq[2][1]}

\* the desired set of the two runs: some shifts of the catalogue, in any
\* order, none of them twice
ShiftSets == UNION {Orders(S) : S \in SUBSET Catalogue}

InitRace ==
    /\ engine = "ek"
    /\ \E S \in RaceStores :
          store = [t \in Targets |-> IF t = TargetOf(engine) THEN S ELSE {}]
    /\ nextId = MaxInit + 1
    /\ now = 1
    /\ run = [r \in RunIds |-> IdleRun]
    /\ started = 0
    /\ failures = MaxFail
    /\ prev = NoPrev
    /\ FreshApp

\* both runs are started with the same scraped shift list
StartConcurrent(shifts) ==
    /\ started = 0
    /\ started' = Cardinality(RunIds)
    /\ run' = [r \in RunIds |-> [IdleRun EXCEPT !.pc = "list", !.shifts = shifts]]
    /\ UNCHANGED <<appVars, engine, store, nextId, now, failures, prev>>

\* both have returned or thrown: one further run with the same shift list
StartAlone ==
    /\ started = Cardinality(RunIds)
    /\ \A r \in RunIds : Finished(r)
    /\ started' = started + 1
    /\ prev' = [pc |-> run[1].pc, shifts |-> run[1].shifts, events |-> <<>>]
    /\ run' = [run EXCEPT ![1] = [IdleRun EXCEPT !.pc = "list", !.shifts = run[1].shifts]]
    /\ UNCHANGED <<appVars, engine, store, nextId, now, failures>>

NextRace ==
    \/ \E shifts \in ShiftSets : StartConcurrent(shifts)
    \/ StartAlone
    \/ \E r \in RunIds : EKStep(r) \/ EKGone(r)

SpecRace == InitRace /\ [][NextRace]_vars

----------------------------------------------------------------------------
(* The deduplication pass on its own:                                      *)
(* deduplicateShiftEvents(getExistingShiftEvents(...)), lines 138-140.     *)

\* marked events as any client can have left them in the window: starting
\* at 0 with start before end, with or without a title or a location, or
\* complete and starting at 2 with start after end; never saved or saved at
\* time 0 or 1; the events of the second identity are all of the first kind
DedupPool ==
    {<<m, q, s, d>> \in (2..Len(Marks)) \X (1..3) \X (1..2) \X (1..3) :
        /\ s = 2 => q = 1
        /\ m > 2 => q = 1 /\ s = 1 /\ d < 3}

DedupEvent(id, p) ==
    Event(id, <<>>, Marks[p[1]],
          IF p[2] = 2 THEN "" ELSE TitleDefault,
          <<<<0, 1>>, <<2, 1>>>>[p[3]][1],
          <<<<0, 1>>, <<2, 1>>>>[p[3]][2],
          IF p[2] = 3 THEN "" ELSE "A",
          <<<<>>, <<0>>, <<1>>>>[p[4]])

Rank(p) == ((p[1] * 4 + p[2]) * 4 + p[3]) * 4 + p[4]

\* the calendar holds up to MaxDup such events (a listing returns them in
\* any order, so they are drawn in pool order)
InitDedup ==
    /\ engine = "ek"
    /\ \E n \in 0..MaxDup :
       \E f \in [1..n -> DedupPool] :
          /\ \A a, b \in 1..n : a < b => Rank(f[a]) <= Rank(f[b])
          /\ store = [t \in Targets |->
                        IF t = "icloud" THEN {DedupEvent(k, f[k]) : k \in 1..n} ELSE {}]
    /\ nextId = MaxDup + 1
    /\ now = 1
    /\ run = [r \in RunIds |-> IdleRun]
    /\ started = 0
    /\ failures = MaxFail
    /\ prev = NoPrev
    /\ FreshApp

\* the events are listed in some order and deduplicateShiftEvents runs on
\* the list: one survivor per identity is selected, every other event is
\* removed from the store, the survivors are returned sorted by start
DedupPass(r) ==
    /\ started < MaxRuns
    /\ \E order \in Orders(ExistingShiftEvents(store[target])) :
         LET plan == DedupPlan(order) IN
         /\ store' = [store EXCEPT
                        ![target] = {e \in @ : \A k \in 1..Len(plan.duplicatesToDelete) :
                                                  plan.duplicatesToDelete[k].id # e.id}]
         /\ run' = [run EXCEPT ![r].pc = "deduped",
                               ![r].existing = ByStart(plan.selected),
                               ![r].dups = plan.duplicatesToDelete]
         /\ prev' = [pc |-> run[r].pc, shifts |-> <<>>, events |-> order]
    /\ started' = started + 1
    /\ UNCHANGED <<appVars, engine, nextId, now, failures>>

NextDedup == DedupPass(1)

SpecDedup == InitDedup /\ [][NextDedup]_vars

----------------------------------------------------------------------------
(* The events an engine regards as its own, and the identity each carries. *)

ManagedEvents ==
    IF engine = "go" THEN listShiftEventUIDs(store[target])
    ELSE ExistingShiftEvents(store[target])

ManagedUID(event) == IF engine = "go" THEN event.res[1] ELSE event.notes[1]

ManagedUIDs == {ManagedUID(e) : e \in ManagedEvents}

DesiredUIDs(r) == {s.uid : s \in Range(run[r].shifts)}

\* the calls of one kind the store applied for a run
Applied(r, op) == SelectSeq(run[r].log, LAMBDA c : c.op = op /\ c.ok)

UIDsOf(shifts) == [k \in 1..Len(shifts) |-> <<shifts[k].uid>>]

CallUIDs(calls) == [k \in 1..Len(calls) |-> calls[k].uid]

\* a second run has returned after a first run that returned
TwoRunsDone == run[1].pc = "done" /\ prev.pc = "done"

----------------------------------------------------------------------------
(* Claims.                                                                 *)

\* C1: when a run returns after a run that returned with the same shift list
\* and nothing else touched the calendar in between, the second run has
\* issued no create, update or delete and its counts are all 0.
C1_Idempotence ==
    TwoRunsDone /\ prev.shifts = run[1].shifts
        => /\ run[1].log = <<>>
           /\ run[1].result.added = 0
           /\ run[1].result.updated = 0
           /\ run[1].result.deleted = 0

\* C2: after a run with D1 and then a run with D2, all calls
\* succeeding, the identities of the managed events are exactly those of D2.
C2_ExactlyDesired ==
    TwoRunsDone /\ engine \in {"ek", "go"} => ManagedUIDs = DesiredUIDs(1)

\* C2, amended: after a run with D1 and then a run with D2, every identity
\* of D2 is carried by a managed event, and a managed event whose identity
\* is not in D2 had ended before the second run planned its deletes.
C2_DesiredPlusPast ==
    TwoRunsDone
        => /\ DesiredUIDs(1) \subseteq ManagedUIDs
           /\ \A e \in ManagedEvents :
                 ManagedUID(e) \notin DesiredUIDs(1) => e.end < run[1].planNow

\* the second run had another shift list than the first, deleted
\* an event and left a past event whose identity it was not given.
C2_Witness ==
    /\ TwoRunsDone
    /\ prev.shifts # run[1].shifts
    /\ Len(Applied(1, "delete")) > 0
    /\ \E e \in ManagedEvents : ManagedUID(e) \notin DesiredUIDs(1)

\* C3: no run deletes, as part of its delete plan, an event that had ended
\* before the run read the clock.
C3_PastRetention ==
    \A k \in 1..Len(run[1].log) :
       run[1].log[k].op = "delete" => ~(run[1].log[k].end < run[1].planNow)

\* C4: after a run that returned, no two managed events in the window carry
\* the same identity.
C4_UniqueIdentity ==
    run[1].pc = "done"
        => \A x, y \in ManagedEvents : ManagedUID(x) = ManagedUID(y) => x.id = y.id

\* C8: when listing the existing events fails, the run ends with an error
\* and has issued no create, update or delete.
C8_ListFailureIsFatal ==
    run[1].listFailed => run[1].pc = "aborted" /\ run[1].log = <<>>

\* C9: a failed create, update or delete does not end the run; the only
\* failure that ends a run is that of listing the existing events.
C9_FailureIsolation ==
    run[1].pc = "aborted"
        => run[1].listFailed /\ \A k \in 1..Len(run[1].log) : run[1].log[k].ok

\* C10: whatever store calls fail, a run of the EventKit or the Google
\* engine that got its listing returns a result, and the counts and the
\* lists of that result are exactly the creates, updates and deletes the
\* store applied; a failed call is neither counted nor listed.
C10_ResultIsWhatWasApplied ==
    /\ engine \in {"ek", "google"}
    /\ run[1].pc \in {"done", "aborted"}
    /\ ~run[1].listFailed
    => /\ run[1].pc = "done"
       /\ run[1].result.added = Len(Applied(1, "create"))
       /\ run[1].result.updated = Len(Applied(1, "update"))
       /\ run[1].result.deleted = Len(Applied(1, "delete"))
       /\ UIDsOf(run[1].result.addedShifts) = CallUIDs(Applied(1, "create"))
       /\ UIDsOf(run[1].result.updatedShifts) = CallUIDs(Applied(1, "update"))
       /\ UIDsOf(run[1].result.deletedShifts) = CallUIDs(Applied(1, "delete"))

----------------------------------------------------------------------------
(* The deduplication pass on its own (SpecDedup).                          *)

\* what the last pass was given, what it returned and what it removed
Listed == Range(prev.events)

Returned == Range(run[1].existing)

Removed == Range(run[1].dups)

SameUID(S, e) == {x \in S : x.notes = e.notes}

\* C6: after deduplicateShiftEvents, of the N >= 1 listed events that share
\* an identity exactly one remains in the store and in the returned list
\* and the other N - 1 have been removed; a further pass on the resulting
\* store removes nothing and returns the same survivors.
C6_DedupConverges ==
    run[1].pc = "deduped" =>
        /\ \A e \in Listed :
              /\ Cardinality(SameUID(ExistingShiftEvents(store[target]), e)) = 1
              /\ Cardinality(SameUID(Returned, e)) = 1
              /\ Cardinality(SameUID(Removed, e)) = Cardinality(SameUID(Listed, e)) - 1
        /\ Returned = ExistingShiftEvents(store[target])
        /\ Len(run[1].existing) = Cardinality(Returned)
        /\ Len(run[1].dups) = Cardinality(Removed)
        /\ Removed \cap store[target] = {}
        /\ Removed \cup Returned = Listed
        /\ started >= 2 => run[1].dups = <<>> /\ Returned = Listed

\* a second pass has run on a store from which the first pass had removed
\* the event with handle 1 and kept a later one
C6_Witness ==
    /\ run[1].pc = "deduped"
    /\ started = 2
    /\ \E e \in store[target] : e.id > 1
    /\ \A e \in store[target] : e.id # 1

\* the order of the tie-break policy: later lastModified, then higher
\* quality score, then earlier start
Better(a, b) ==
    \/ lastModified(a) > lastModified(b)
    \/ /\ lastModified(a) = lastModified(b)
       /\ \/ eventQualityScore(a) > eventQualityScore(b)
          \/ /\ eventQualityScore(a) = eventQualityScore(b)
             /\ a.start < b.start

Tied(a, b) ==
    /\ lastModified(a) = lastModified(b)
    /\ eventQualityScore(a) = eventQualityScore(b)
    /\ a.start = b.start

Pos(e) == CHOOSE k \in 1..Len(prev.events) : prev.events[k] = e

\* the event without the store's handle
Content(e) == [e EXCEPT !.id = 0]

\* the survivors the pass selects for each order of what it was given
Outcomes == {DedupPlan(o).selected : o \in Orders(Listed)}

\* C7: the survivor of every identity is the listed event with the
\* latest lastModified, then the highest quality score, then the earliest
\* start, and the same event survives for every order of the listing (two
\* events with the same content count as the same event).
C7_SurvivorAnyOrder ==
    run[1].pc = "deduped" =>
        /\ \A s \in Returned : \A e \in SameUID(Listed, s) \ {s} :
              Better(s, e) \/ Tied(s, e)
        /\ \A sel \in Outcomes :
              {Content(t) : t \in sel} = {Content(s) : s \in Returned}

\* C7, amended: the survivor of every identity is better than every other
\* listed event of that identity in the tie-break order, or is tied with it
\* on all three keys and listed before it; for every order of the listing
\* the survivor has the same three keys, and is the same event when no other
\* event is tied with it on all three.
C7_SurvivorUpToTies ==
    run[1].pc = "deduped" =>
        LET outcomes == Outcomes IN
        \A s \in Returned :
            /\ \A e \in SameUID(Listed, s) \ {s} :
                  Better(s, e) \/ (Tied(s, e) /\ Pos(s) < Pos(e))
            /\ \A sel \in outcomes : \A t \in SameUID(sel, s) :
                  /\ Tied(t, s)
                  /\ (\A e \in SameUID(Listed, s) \ {s} : ~Tied(s, e)) => t = s

\* a pass has removed one event that was listed before the survivor and was
\* saved earlier, and one that is tied with the survivor on all three keys
C7_Witness ==
    /\ run[1].pc = "deduped"
    /\ \E s \in Returned : \E d, e \in SameUID(Removed, s) :
          /\ lastModified(s) > lastModified(d)
          /\ Pos(d) < Pos(s)
          /\ Tied(s, e)

----------------------------------------------------------------------------
(* Two concurrent runs and the run after them (SpecRace).                  *)

\* the run that was started alone after the two concurrent ones has returned
Healed == started > Cardinality(RunIds) /\ run[1].pc = "done"

\* C5: for every interleaving of the store calls of two runs of syncShifts
\* on the same calendar, window and desired set, once both have finished
\* and one further run has executed alone, every identity of the desired
\* set is carried by exactly one managed event: duplicates the two runs
\* left behind are removed and shifts they lost are created again.
C5_SelfHealing ==
    Healed =>
        \A u \in DesiredUIDs(1) :
            Cardinality({e \in ManagedEvents : ManagedUID(e) = u}) = 1

\* the second of the concurrent runs created an event and threw later on;
\* the run after them removed an event created during the race as a
\* duplicate of that identity
C5_Witness ==
    /\ Healed
    /\ run[2].pc = "aborted"
    /\ \E j \in 1..Len(run[2].log), k \in 1..Len(run[1].log) :
          /\ run[2].log[j].op = "create"
          /\ run[1].log[k].op = "dedup"
          /\ run[1].log[k].uid = run[2].log[j].uid
          /\ run[1].log[k].id > MaxInit

----------------------------------------------------------------------------
(* Claims about single store calls and about the plan of a run.            *)

\* C11: a delete of an event that is already absent from the calendar is a
\* success: with no store call failing for any other reason (SpecAbsent),
\* no delete call of a run fails and none ends the run.
C11_DeleteOfAbsentSucceeds ==
    \A k \in 1..Len(run[1].log) :
        run[1].log[k].op = "delete" => run[1].log[k].ok

\* C12: an event whose notes carry no identity of this tool (no marker, or
\* the marker prefix followed by an empty string) is never deleted or
\* changed by a run: the two such events the calendar starts with are still
\* there, as they were.
C12_ForeignUntouched == ForeignEvents \subseteq store[target]

\* the run is about to handle a shift whose identity an existing event carries
Matched(r) ==
    /\ engine \in {"ek", "google"}
    /\ run[r].pc = "apply"
    /\ run[r].i <= Len(run[r].shifts)
    /\ CurrentShift(r).uid \in run[r].existingUIDs

MatchedEvent(r) ==
    run[r].existing[FirstWithUID(run[r].existing, CurrentShift(r).uid)]

\* the step appended a call of this kind to the log of the run
Issued(r, op) ==
    /\ Len(run'[r].log) = Len(run[r].log) + 1
    /\ run'[r].log[Len(run'[r].log)].op = op

\* C13: a shift whose identity an existing event carries is written and
\* counted in updated if and only if its title, start, end or location
\* differs from that event; otherwise nothing is written and nothing counted.
C13_UpdateRule ==
    [][\A r \in RunIds :
          Matched(r) /\ run'[r] # run[r] =>
             /\ Issued(r, "update") <=> needsUpdate(MatchedEvent(r), CurrentShift(r))
             /\ run'[r].result.updated = run[r].result.updated +
                  (IF needsUpdate(MatchedEvent(r), CurrentShift(r)) THEN 1 ELSE 0)]_vars

\* the managed events in the window that carry this identity
Carrying(uid) == {e \in ExistingShiftEvents(store[target]) : extractShiftUID(e) = <<uid>>}

\* C14: a shift record is created if and only if no managed event in the
\* window carries its identity, and a create adds exactly one to added.
C14_CreateRule ==
    [][\A r \in RunIds :
          /\ engine \in {"ek", "google"}
          /\ run[r].pc = "apply"
          /\ run[r].i <= Len(run[r].shifts)
          /\ run'[r] # run[r]
          => /\ Issued(r, "create") <=> Carrying(CurrentShift(r).uid) = {}
             /\ run'[r].result.added = run[r].result.added +
                  (IF Carrying(CurrentShift(r).uid) = {} THEN 1 ELSE 0)]_vars

\* C15: a run plans one record per identity: the calls of a run hold at most
\* one create, update or put for any identity.
C15_OneWritePerIdentity ==
    \A r \in RunIds : \A j, k \in 1..Len(run[r].log) :
        /\ run[r].log[j].op \in {"create", "update", "put"}
        /\ run[r].log[k].op \in {"create", "update", "put"}
        /\ run[r].log[j].uid = run[r].log[k].uid
        => j = k

\* C16: the calls of a run are ordered: every delete comes before any create,
\* update or put, and every create comes before any update.
C16_ApplyOrder ==
    \A r \in RunIds : \A j, k \in 1..Len(run[r].log) :
        j < k =>
          /\ ~(/\ run[r].log[j].op \in {"create", "update", "put"}
               /\ run[r].log[k].op = "delete")
          /\ ~(run[r].log[j].op = "update" /\ run[r].log[k].op = "create")

\* the creates, updates and puts a run has issued, applied or not
Writes(r) == SelectSeq(run[r].log, LAMBDA c : c.op \in {"create", "update", "put"})

\* is p what is left of q when some of its entries are taken out
IsSubSeq(p, q) ==
    \E f \in [1..Len(p) -> 1..Len(q)] :
       /\ \A k \in 1..Len(p) : p[k] = q[f[k]]
       /\ \A j, k \in 1..Len(p) : j < k => f[j] < f[k]

\* C16, as the code has it: within one run every delete of the plan is
\* issued before any create, update or put, and the creates, updates and puts
\* are issued in the order of the shift list, creates and updates mixed.
C16_DeletesThenListOrder ==
    \A r \in RunIds :
       /\ \A j, k \in 1..Len(run[r].log) :
             j < k /\ run[r].log[j].op \in {"create", "update", "put"} =>
                run[r].log[k].op # "delete"
       /\ IsSubSeq(CallUIDs(Writes(r)), UIDsOf(run[r].shifts))

\* a run has returned that issued an update for the first shift of its list
\* and then a create for the second
C16_Witness ==
    /\ run[1].pc = "done"
    /\ Len(run[1].log) = 2
    /\ Len(run[1].shifts) = 2
    /\ run[1].log[1].op = "update" /\ run[1].log[1].uid = <<run[1].shifts[1].uid>>
    /\ run[1].log[2].op = "create" /\ run[1].log[2].uid = <<run[1].shifts[2].uid>>

\* a run was aborted between two calls and the run after it, given the same
\* shift list, has returned
RerunAfterCancel ==
    /\ run[1].pc = "done"
    /\ prev.pc = "aborted"
    /\ prev.shifts = run[1].shifts

\* C17: when a run is aborted between two store calls and a following run
\* with the same shift list returns, the calendar is in the final state of a
\* run that was never interrupted: every desired identity is carried by
\* exactly one managed event in the window, with the content of its shift.
C17_CancellationSafety ==
    RerunAfterCancel =>
       \A s \in Range(run[1].shifts) :
          /\ Cardinality(Carrying(s.uid)) = 1
          /\ \A e \in Carrying(s.uid) : ~needsUpdate(e, s)

----------------------------------------------------------------------------
(* Claims about performSync.                                               *)

\* performSync has returned or thrown
PerformOver == prev.pc \in {"returned", "thrown"}

\* C18: when a store call of the iCloud sync fails, the Google calendar is
\* synced all the same before performSync ends.
C18_TargetsIndependent ==
    /\ PerformOver
    /\ run[1].pc = "aborted"
    /\ \E k \in 1..Len(run[1].log) : run[1].log[k].op # "fetch" /\ ~run[1].log[k].ok
    => run[2].pc \in {"done", "aborted"}

\* C19: when the fetch of one month fails after another month has given
\* shifts, the run goes on with the months it has: by the end of performSync
\* that list was reconciled with the iCloud calendar.
C19_FetchFailureKeepsMonths ==
    /\ PerformOver
    /\ run[1].shifts # <<>>
    /\ \E k \in 1..Len(run[1].log) : run[1].log[k].op = "fetch" /\ ~run[1].log[k].ok
    => run[1].pc = "done"

----------------------------------------------------------------------------
(* Claims about the two tools on one calendar.                             *)

\* the events of either tool in the window that stand for this shift
EventsFor(shift) ==
    {e \in store["icloud"] :
        InWindow(e) /\ (e.notes = <<shift.uid>> \/ e.res = <<shift.uid>>)}

\* C20: whenever a run of the app or of the CLI has returned, the calendar
\* holds exactly one event of the tools for every shift of the list.
C20_OneEventPerShift ==
    run[1].pc = "done" =>
       \A s \in Range(run[1].shifts) : Cardinality(EventsFor(s)) = 1

----------------------------------------------------------------------------
(* Claims about the identity of a shift.                                   *)

SameKey(a, b) == a.start = b.start /\ a.end = b.end /\ a.location = b.location

\* C21: two shifts built by one process have the same identity exactly when
\* their start, end and location are equal; title and memo play no part.
C21_IdentitySensitivity ==
    \A j, k \in 1..Len(call) :
        call[j].zone = call[k].zone =>
           (call[j].uid = call[k].uid <=> SameKey(call[j].shift, call[k].shift))

\* C22: the identity depends on start, end and location alone: whichever
\* process computes it, in whatever time zone, the result is the same.
C22_IdentityDeterminism ==
    \A j, k \in 1..Len(call) :
        SameKey(call[j].shift, call[k].shift) => call[j].uid = call[k].uid

----------------------------------------------------------------------------
(* The marker in the text of an event's notes (EventKit) or description    *)
(* (Google).  A text is a sequence of characters; "shift-uid:" stands for   *)
(* that substring.  The notes field of the event records above is what      *)
(* textUID finds in the text.                                               *)

Marker == "shift-uid:"

Newline == "\n"

\* identities as makeUID prints them: no line break, no marker inside
IdTexts == UNION {[1..n -> {"s", "1"}] : n \in 1..MaxIdLen}

\* a memo is free text
MemoTexts == UNION {[1..n -> {"m", Newline, Marker}] : n \in 0..MaxMemoLen}

\* notes of events this tool did not write: none, or text without the marker
ForeignNotes == {<<>>} \cup {<<t>> : t \in UNION {[1..n -> {"m", Newline}] : n \in 0..MaxMemoLen}}

\* createEvent / createEventBody: "shift-uid:<uid>", then a line break and the
\* memo when there is one
notesText(uid, memo) ==
    <<Marker>> \o uid \o (IF memo = <<>> THEN <<>> ELSE <<Newline>> \o memo)

firstIndex(text, c) ==
    IF \E k \in 1..Len(text) : text[k] = c
    THEN <<CHOOSE k \in 1..Len(text) : text[k] = c /\ \A j \in 1..(k - 1) : text[j] # c>>
    ELSE <<>>

textUID_WholeRemainder(notes) ==
    IF notes = <<>> \/ firstIndex(notes[1], Marker) = <<>> THEN <<>>
    ELSE LET text == notes[1]
             remaining == SubSeq(text, firstIndex(text, Marker)[1] + 1, Len(text))
         IN <<remaining>>

\* extractShiftUID on the text: nil without notes or marker, else what follows
\* the first marker up to the first line break
textUID(notes) ==
    IF notes = <<>> \/ firstIndex(notes[1], Marker) = <<>> THEN <<>>
    ELSE LET text == notes[1]
             remaining == SubSeq(text, firstIndex(text, Marker)[1] + 1, Len(text))
             end == firstIndex(remaining, Newline)
         IN IF end # <<>> THEN <<SubSeq(remaining, 1, end[1] - 1)>>
            ELSE <<remaining>>

InitMarker == InitIdentity

\* an event is created for a shift and read back
CreateNotes(uid, memo) ==
    /\ call = <<>>
    /\ call' = <<[op |-> "create", uid |-> uid, memo |-> memo,
                  notes |-> <<notesText(uid, memo)>>,
                  found |-> textUID(<<notesText(uid, memo)>>)]>>
    /\ UNCHANGED <<syncVars, defaults, notified, task, logging>>

\* CalendarService.updateEvent: title, dates and location are set, the notes
\* stay as they were created
UpdateNotesEK ==
    /\ Len(call) = 1
    /\ call[1].op = "create"
    /\ call' = Append(call, [call[1] EXCEPT !.op = "update",
                                            !.found = textUID(call[1].notes)])
    /\ UNCHANGED <<syncVars, defaults, notified, task, logging>>

\* GoogleCalendarService.updateEvent: PUT of createEventBody for the matched
\* shift, which has the event's identity and the memo of the new scrape
UpdateNotesGoogle(memo) ==
    /\ Len(call) = 1
    /\ call[1].op = "create"
    /\ call' = Append(call, [op |-> "update", uid |-> call[1].uid, memo |-> memo,
                             notes |-> <<notesText(call[1].uid, memo)>>,
                             found |-> textUID(<<notesText(call[1].uid, memo)>>)])
    /\ UNCHANGED <<syncVars, defaults, notified, task, logging>>

\* an event of someone else is read
ReadForeign(notes) ==
    /\ call = <<>>
    /\ call' = <<[op |-> "foreign", uid |-> <<>>, memo |-> <<>>,
                  notes |-> notes, found |-> textUID(notes)]>>
    /\ UNCHANGED <<syncVars, defaults, notified, task, logging>>

NextMarker ==
    \/ \E uid \in IdTexts, memo \in MemoTexts : CreateNotes(uid, memo)
    \/ UpdateNotesEK
    \/ \E memo \in MemoTexts : UpdateNotesGoogle(memo)
    \/ \E notes \in ForeignNotes : ReadForeign(notes)

SpecMarker == InitMarker /\ [][NextMarker]_vars

\* C23: reading the identity back from the notes of an event created for an
\* identity, or of that event after an update, gives that identity whatever
\* the memo; notes without the marker give no identity.
C23_MarkerRoundTrip ==
    \A k \in 1..Len(call) :
        /\ call[k].op \in {"create", "update"} => call[k].found = <<call[k].uid>>
        /\ call[k].op = "foreign" => call[k].found = <<>>

C23_Witness ==
    /\ Len(call) = 2
    /\ call[2].op = "update"
    /\ call[2].memo = <<Marker, Newline>>
    /\ call[1].memo # call[2].memo
    /\ call[2].found = <<call[2].uid>>

----------------------------------------------------------------------------
(* parseShifts on the rows of a month page, and the shifts it hands to the *)
(* reconciliation.                                                         *)

\* the time cells a row can show, in minutes of the day: 06:00, 09:00,
\* 17:00 and 22:00
RowStarts == {540, 1320}

RowEnds == {360, 540, 1020}

Rows == [day : {1, 2}, start : RowStarts, end : RowEnds, shop : {"A"}]

RowLists == SeqsUpTo(Rows, MaxRows)

\* combineDateTime(year, month, day, "HH:mm")
combineDateTime(day, hhmm) == (day - 1) * MinutesPerDay + hhmm

\* the loop over the rows of the table: start and end are both put on the
\* day of the row, and a row is skipped when they are equal
RECURSIVE parseShifts(_, _, _)
parseShifts(rows, k, shifts) ==
    IF k > Len(rows) THEN shifts
    ELSE LET startDate == combineDateTime(rows[k].day, rows[k].start)
             endDate == combineDateTime(rows[k].day, rows[k].end)
         IN IF startDate = endDate THEN parseShifts(rows, k + 1, shifts)
            ELSE parseShifts(rows, k + 1,
                     Append(shifts, Shift(TitleDefault, startDate, endDate, rows[k].shop, "")))

InitParse == InitIdentity

ParsePage(rows) ==
    /\ call = <<>>
    /\ call' = <<[op |-> "parse", rows |-> rows, shifts |-> parseShifts(rows, 1, <<>>)]>>
    /\ UNCHANGED <<syncVars, defaults, notified, task, logging>>

\* the parsed shifts enter syncShiftsToCalDAV, which builds desiredShifts
Reconcile ==
    /\ Len(call) = 1
    /\ call' = Append(call, [op |-> "desired", rows |-> call[1].rows,
                             shifts |-> desiredShifts(call[1].shifts, 1, <<>>)])
    /\ UNCHANGED <<syncVars, defaults, notified, task, logging>>

NextParse ==
    \/ \E rows \in RowLists : ParsePage(rows)
    \/ Reconcile

SpecParse == InitParse /\ [][NextParse]_vars

\* C24: every shift that the parser produces and that reaches the
\* reconciliation starts before it ends.
C24_StartBeforeEnd ==
    \A k \in 1..Len(call) :
        call[k].op = "desired" =>
            \A j \in 1..Len(call[k].shifts) :
                call[k].shifts[j].start < call[k].shifts[j].end

----------------------------------------------------------------------------
(* SyncHistoryManager: the sync history kept in UserDefaults.  An entry    *)
(* takes its date from the wall clock (Date()); the clock is read as now,  *)
(* moves on between two calls, and can be set back by the user or by the   *)
(* network time.                                                           *)

InitHistory ==
    /\ engine = "ek"
    /\ store = [t \in Targets |-> {}]
    /\ nextId = 1
    /\ now = 2
    /\ run = [r \in RunIds |-> IdleRun]
    /\ started = 0
    /\ failures = 0
    /\ prev = NoPrev
    /\ FreshApp

Record(entry) ==
    /\ Len(call) < MaxLogged
    /\ defaults' = [defaults EXCEPT !.syncHistory = addEntry(@, entry)]
    /\ call' = Append(call, entry)
    /\ now' = now + 2
    /\ nextId' = nextId + 1

\* logSuccess(source:result:)
logSuccess(source, result) ==
    /\ Record(SyncLogEntry(nextId, now, source, result, TRUE))
    /\ UNCHANGED <<engine, store, run, started, failures, prev, notified, task, logging>>

\* logFailure(source:error:)
logFailure(source) ==
    /\ failures < MaxFail
    /\ failures' = failures + 1
    /\ Record(SyncLogEntry(nextId, now, source, NoChanges, FALSE))
    /\ UNCHANGED <<engine, store, run, started, prev, notified, task, logging>>

\* the wall clock is set back, once, to before the last entry
SetClockBack(to) ==
    /\ now = 2 * nextId
    /\ to >= 1
    /\ to < now - 2
    /\ now' = to
    /\ UNCHANGED <<engine, store, nextId, run, started, failures, prev, appVars>>

NextHistory ==
    \/ logSuccess("background", [added |-> 1, updated |-> 0, deleted |-> 0])
    \/ \E source \in Sources : logFailure(source)
    \/ \E to \in {1, now - 5} : SetClockBack(to)

SpecHistory == InitHistory /\ [][NextHistory]_vars

Reverse(s) == [k \in 1..Len(s) |-> s[Len(s) + 1 - k]]

\* the last n entries recorded, newest first
MostRecent(n) ==
    LET k == Len(call) IN
    Reverse(SubSeq(call, k - (IF k < n THEN k ELSE n) + 1, k))

ClockNeverBack == \A j \in 1..(Len(call) - 1) : call[j].date < call[j + 1].date

----------------------------------------------------------------------------
(* buildMonthRange of the Go CLI: the months named by --from and --to.     *)

maxMonths == 12

Years == 2024..(2023 + MaxYears)

YearMonths == [Year : Years, Month : 1..12]

\* a month argument: not given, "YYYY-MM", or text that does not parse
\* ("2024-13")
MonthArgs == {<<>>, <<[Year |-> 2024, Month |-> 13]>>} \cup {<<ym>> : ym \in YearMonths}

\* parseYYYYMM
parseYYYYMM(s) == IF s[1] \in YearMonths THEN [ym |-> <<s[1]>>, err |-> <<>>]
                  ELSE [ym |-> <<>>, err |-> <<"parse">>]

\* addMonths(ym, 1)
addMonths(ym) ==
    IF ym.Month = 12 THEN [Year |-> ym.Year + 1, Month |-> 1]
    ELSE [Year |-> ym.Year, Month |-> ym.Month + 1]

compareYearMonth(a, b) ==
    IF a.Year # b.Year THEN (IF a.Year < b.Year THEN -1 ELSE 1)
    ELSE IF a.Month < b.Month THEN -1
    ELSE IF a.Month > b.Month THEN 1
    ELSE 0

\* for ym := from; ; ym = addMonths(ym, 1) { ... }
RECURSIVE monthLoop(_, _, _)
monthLoop(ym, to, list) ==
    LET appended == Append(list, ym) IN
    IF compareYearMonth(ym, to) = 0 THEN [list |-> appended, err |-> <<>>]
    ELSE IF Len(appended) > maxMonths THEN [list |-> <<>>, err |-> <<"too wide">>]
    ELSE monthLoop(addMonths(ym), to, appended)

checkedRange(from, to) ==
    IF compareYearMonth(from, to) > 0 THEN [list |-> <<>>, err |-> <<"from after to">>]
    ELSE monthLoop(from, to, <<>>)

buildMonthRange(cur, fromStr, toStr) ==
    IF fromStr = <<>> /\ toStr = <<>>
    THEN [list |-> <<cur, addMonths(cur)>>, err |-> <<>>]
    ELSE IF fromStr # <<>> /\ toStr # <<>>
    THEN IF parseYYYYMM(fromStr).err # <<>> THEN [list |-> <<>>, err |-> <<"from">>]
         ELSE IF parseYYYYMM(toStr).err # <<>> THEN [list |-> <<>>, err |-> <<"to">>]
         ELSE checkedRange(parseYYYYMM(fromStr).ym[1], parseYYYYMM(toStr).ym[1])
    ELSE IF fromStr # <<>>
    THEN IF parseYYYYMM(fromStr).err # <<>> THEN [list |-> <<>>, err |-> <<"from">>]
         ELSE checkedRange(parseYYYYMM(fromStr).ym[1], addMonths(parseYYYYMM(fromStr).ym[1]))
    ELSE IF parseYYYYMM(toStr).err # <<>> THEN [list |-> <<>>, err |-> <<"to">>]
         ELSE checkedRange(cur, parseYYYYMM(toStr).ym[1])

InitMonths == InitIdentity

\* the CLI is started in month cur with these --from and --to
BuildMonthRange(cur, fromStr, toStr) ==
    /\ call = <<>>
    /\ call' = <<[cur |-> cur, from |-> fromStr, to |-> toStr,
                  out |-> buildMonthRange(cur, fromStr, toStr)]>>
    /\ UNCHANGED <<syncVars, defaults, notified, task, logging>>

NextMonths ==
    \E cur \in {[Year |-> 2024, Month |-> 6], [Year |-> 2024, Month |-> 12]},
       fromStr \in MonthArgs, toStr \in MonthArgs :
        BuildMonthRange(cur, fromStr, toStr)

SpecMonths == InitMonths /\ [][NextMonths]_vars

MonthNumber(ym) == ym.Year * 12 + ym.Month

\* the months both arguments name, when both parse
Given(c) == c.from # <<>> /\ c.to # <<>> /\ c.from[1] \in YearMonths /\ c.to[1] \in YearMonths

Span(c) == MonthNumber(c.to[1]) - MonthNumber(c.from[1]) + 1

\* C26: a range of at most 12 months is returned month by month, a from later
\* than to is an error, every range of more than 12 months is the "too wide"
\* error, and no returned list has more than 12 entries.
C26_MonthRangeCap ==
    \A k \in 1..Len(call) :
        LET c == call[k] IN
        /\ Len(c.out.list) <= maxMonths
        /\ Given(c) /\ Span(c) <= 0 => c.out.err = <<"from after to">>
        /\ Given(c) /\ Span(c) > maxMonths => c.out.err = <<"too wide">>
        /\ Given(c) /\ Span(c) \in 1..maxMonths =>
              /\ c.out.err = <<>>
              /\ Len(c.out.list) = Span(c)
              /\ \A j \in 1..Span(c) :
                    MonthNumber(c.out.list[j]) = MonthNumber(c.from[1]) + j - 1

----------------------------------------------------------------------------
(* Invocations of performSync that end at the same time.  performSync is a *)
(* nonisolated async method of a plain class: the background Task, a tap   *)
(* on the sync button and a Shortcuts intent each run it on the concurrent *)
(* executor, so the statements of addEntry of two invocations interleave.  *)

InitLogRace == InitHistory

\* performSync of invocation i comes to its end: it returns result, or throws
PerformSyncEnds(i, source, success, result) ==
    /\ logging[i].pc = "idle"
    /\ ~success => result = NoChanges
    /\ logging' = [logging EXCEPT ![i].pc = "ending"]
    /\ call' = Append(call, [inv |-> i, source |-> source, success |-> success,
                             result |-> result])
    /\ UNCHANGED <<syncVars, defaults, notified, task>>

Ending(i) == CHOOSE c \in Range(call) : c.inv = i

\* logSuccess / logFailure build the entry; addEntry: var entries = getHistory()
AddEntryRead(i) ==
    /\ logging[i].pc = "ending"
    /\ logging' = [logging EXCEPT
          ![i] = [pc |-> "read", entries |-> getHistory(defaults.syncHistory),
                  entry |-> <<SyncLogEntry(nextId, now, Ending(i).source,
                                           Ending(i).result, Ending(i).success)>>]]
    /\ nextId' = nextId + 1
    /\ now' = now + 2
    /\ UNCHANGED <<engine, store, run, started, failures, prev, defaults,
                   notified, task, call>>

\* addEntry: insert at 0, trim, saveEntries
AddEntrySave(i) ==
    /\ logging[i].pc = "read"
    /\ defaults' = [defaults EXCEPT
          !.syncHistory = addEntry(logging[i].entries, logging[i].entry[1])]
    /\ logging' = [logging EXCEPT ![i].pc = "saved"]
    /\ UNCHANGED <<syncVars, notified, task, call>>

NextLogRace ==
    \/ \E i \in RunIds, source \in Sources, success \in BOOLEAN,
          result \in {NoChanges, [added |-> 1, updated |-> 0, deleted |-> 1]} :
          PerformSyncEnds(i, source, success, result)
    \/ \E i \in RunIds : AddEntryRead(i)
    \/ \E i \in RunIds : AddEntrySave(i)

SpecLogRace == InitLogRace /\ [][NextLogRace]_vars

EntriesOf(i) ==
    LET history == getHistory(defaults.syncHistory) IN
    {k \in 1..Len(history) :
        /\ history[k].id = logging[i].entry[1].id
        /\ history[k].source = Ending(i).source
        /\ history[k].success = Ending(i).success
        /\ history[k].result = Ending(i).result}

\* C27: every invocation of performSync that has ended has exactly one entry
\* in the history, a success entry with its counts or a failure entry,
\* however the invocations interleave.
C27_OneEntryPerSync ==
    \A i \in RunIds : logging[i].pc = "saved" => Cardinality(EntriesOf(i)) = 1

----------------------------------------------------------------------------
(* performSync over a cache that earlier syncs have left, and performSync  *)
(* called again after it has returned or thrown.                           *)

\* shifts an earlier sync can have cached: one past the sync range, the
\* first of the catalogue, and the second before its end was moved
CachedShifts ==
    {Shift(TitleDefault, WinEnd + 1, WinEnd + 2, "A", ""),
     Shift(TitleDefault, 0, 1, "A", ""),
     Shift(TitleDefault, 2, 4, "A", "")}

PreviousCaches == {ByStart(S) : S \in SUBSET CachedShifts}

InitCache ==
    /\ engine = "ek"
    /\ \E S \in InitialStores("ek"), G \in InitialStores("google") :
          /\ Cardinality(S) = 2
          /\ Cardinality(G) = 1
          /\ store = [t \in Targets |-> IF t = "icloud" THEN S ELSE G]
    /\ nextId = MaxInit + 1
    /\ now = 1
    /\ run = [r \in RunIds |-> IdleRun]
    /\ started = 0
    /\ failures = 0
    /\ prev = NoPrev
    /\ \E cache \in PreviousCaches :
          defaults = [savedShifts |-> cache, lastSyncDate |-> <<0>>, syncHistory |-> <<>>]
    /\ notified = <<>>
    /\ task = NoTask
    /\ logging = [r \in RunIds |-> IdleLogging]
    /\ call = <<>>

SpecCache == InitCache /\ [][NextPerform]_vars

\* performSync is called again, later
PerformAgain ==
    /\ prev.pc \in {"returned", "thrown"}
    /\ started < MaxRuns
    /\ started' = started + 1
    /\ now' = now + 1
    /\ engine' = "ek"
    /\ prev' = NoPrev
    /\ run' = [r \in RunIds |-> IF r = 1 THEN [IdleRun EXCEPT !.pc = "fetch"] ELSE IdleRun]
    /\ call' = Append(call, [inv |-> started + 1, before |-> defaults, new |-> <<>>,
                             previous |-> <<>>])
    /\ UNCHANGED <<store, nextId, failures, defaults, notified, task, logging>>

NextNotify == NextPerform \/ PerformAgain

SpecNotify == InitCache /\ [][NextNotify]_vars

InRange(s) == s.start >= currentSyncRange.start /\ s.start < currentSyncRange.end

\* C28: while performSync runs and after it has thrown, savedShifts and
\* lastSyncDate are what they were before the call; after it has returned the
\* cache is the cached shifts outside the sync range plus the fetched shifts.
C28_FailedSyncKeepsCache ==
    started = 1 =>
       /\ prev.pc # "returned" =>
             /\ defaults.savedShifts = Invocation.before.savedShifts
             /\ defaults.lastSyncDate = Invocation.before.lastSyncDate
       /\ prev.pc = "returned" =>
             /\ Len(defaults.savedShifts) =
                   Len(SelectSeq(Invocation.before.savedShifts, LAMBDA s : ~InRange(s)))
                   + Len(run[1].shifts)
             /\ Range(defaults.savedShifts) =
                   {s \in Range(Invocation.before.savedShifts) : ~InRange(s)}
                   \cup Range(run[1].shifts)
             /\ defaults.lastSyncDate = <<now>>

C28_Witness ==
    /\ prev.pc = "thrown"
    /\ run[1].pc = "done"
    /\ run[2].pc = "aborted"
    /\ store["icloud"] # {}
    /\ notified # <<>>
    /\ \E s \in Range(defaults.savedShifts) : InRange(s)
    /\ Range(defaults.savedShifts) # Range(run[1].shifts)
    /\ defaults.savedShifts = Invocation.before.savedShifts

\* C29: a change that one run has announced is not announced again by a
\* later run that scraped the same shifts.
C29_NoRepeatedNotifications ==
    \A j, k \in 1..Len(notified) :
        /\ notified[j].kind = notified[k].kind
        /\ notified[j].shift = notified[k].shift
        /\ notified[j].old = notified[k].old
        /\ call[notified[j].inv].new = call[notified[k].inv].new
        => notified[j].inv = notified[k].inv

----------------------------------------------------------------------------
(* handleAppRefresh: the system launches the app for a background refresh  *)
(* task.  task.submitted counts the refresh requests handed to the         *)
(* scheduler, task.scheduled those it has accepted, task.completed lists    *)
(* the calls of setTaskCompleted.                                           *)

InitRefresh ==
    /\ engine = "ek"
    /\ \E S \in InitialStores("ek"), G \in InitialStores("google") :
          /\ Cardinality(S) = 2
          /\ Cardinality(G) = 1
          /\ store = [t \in Targets |-> IF t = "icloud" THEN S ELSE G]
    /\ nextId = MaxInit + 1
    /\ now = 1
    /\ run = [r \in RunIds |-> IdleRun]
    /\ started = 0
    /\ failures = 0
    /\ prev = NoPrev
    /\ FreshApp

\* handleAppRefresh: scheduleAppRefresh (a request the scheduler refuses is
\* only printed), the expiration handler is set, and the sync Task is
\* created, which calls performSync(source: .background)
HandleAppRefresh(accepted) ==
    /\ task.pc = "none"
    /\ started = 0
    /\ task' = [task EXCEPT !.pc = "running",
                            !.submitted = @ + 1,
                            !.scheduled = IF accepted THEN @ + 1 ELSE @]
    /\ started' = 1
    /\ run' = [run EXCEPT ![1].pc = "fetch"]
    /\ call' = Append(call, [inv |-> 1, before |-> defaults, new |-> <<>>,
                             previous |-> <<>>])
    /\ UNCHANGED <<engine, store, nextId, now, failures, prev, defaults, notified,
                   logging>>

\* the system runs the expiration handler while the task is not completed
Expire ==
    /\ task.pc = "running"
    /\ task.completed = <<>>
    /\ task' = [task EXCEPT !.completed = Append(@, [by |-> "expiration", success |-> FALSE])]
    /\ UNCHANGED <<syncVars, defaults, notified, logging, call>>

\* SyncResult.hasNotifiableChanges
hasNotifiableChanges(result) ==
    LET future(shifts) == SelectSeq(shifts, LAMBDA s : s.start >= startOfMonth) IN
    IF future(result.addedShifts) # <<>> \/ future(result.updatedShifts) # <<>>
       \/ future(result.deletedShifts) # <<>>
    THEN TRUE
    ELSE IF result.addedShifts # <<>> \/ result.updatedShifts # <<>>
            \/ result.deletedShifts # <<>>
    THEN FALSE
    ELSE result.added > 0 \/ result.updated > 0 \/ result.deleted > 0

\* performSync has returned to the Task: setTaskCompleted(success: true),
\* then the notification of the completed sync
TaskSucceeds ==
    /\ task.pc = "running"
    /\ prev.pc = "returned"
    /\ task' = [task EXCEPT !.pc = "finished",
                            !.completed = Append(@, [by |-> "sync", success |-> TRUE])]
    /\ notified' = IF hasNotifiableChanges(run[1].result)
                   THEN Append(notified, Notice(Invocation.inv, "complete", <<>>, EmptyMark))
                   ELSE notified
    /\ UNCHANGED <<syncVars, defaults, logging, call>>

\* performSync has thrown to the Task: setTaskCompleted(success: false)
TaskFails ==
    /\ task.pc = "running"
    /\ prev.pc = "thrown"
    /\ task' = [task EXCEPT !.pc = "finished",
                            !.completed = Append(@, [by |-> "sync", success |-> FALSE])]
    /\ UNCHANGED <<syncVars, defaults, notified, logging, call>>

NextRefresh ==
    \/ \E accepted \in BOOLEAN : HandleAppRefresh(accepted)
    \/ Expire
    \/ \E page \in ShiftLists : FetchMonth(page)
    \/ FetchMonthFail
    \/ SyncICloud
    \/ EKStep(1)
    \/ EKFail(1)
    \/ SyncGoogle
    \/ GoogleStep(2)
    \/ GoogleFail(2)
    \/ PerformReturn
    \/ PerformThrow
    \/ TaskSucceeds
    \/ TaskFails

SpecRefresh == InitRefresh /\ [][NextRefresh]_vars

\* C30: setTaskCompleted is never called twice for a refresh task and has
\* been called once when the sync Task is over, and the next refresh request
\* has been submitted when the sync starts.
C30_CompletedOnce ==
    /\ Len(task.completed) <= 1
    /\ task.pc = "finished" => Len(task.completed) = 1
    /\ task.pc = "running" => task.submitted = 1

====
